---------------------------- MODULE Spec2Model ----------------------------
(***************************************************************************)
(* A model of the event distribution engine of bk-cmdb:                    *)
(*   - source_controller/coreservice/cache/business/lock.go                *)
(*       the refresh lock table (canRefresh/setRefreshing/setUnRefreshing) *)
(*   - scene_server/event_server/distribution/distributer.go               *)
(*       the subscription registry and the watch-and-distribute loop       *)
(*   - scene_server/event_server/distribution/event.go                     *)
(*       the event handler (pump, fan-out) and the per-subscriber sender   *)
(*                                                                         *)
(* Strings that the code splits or concatenates are sequences of chunks:   *)
(* "hostcreate" is <<"host", "create">>, "A,B" is <<"A", ",", "B">>.       *)
(***************************************************************************)
EXTENDS Integers, Sequences, FiniteSets, TLC

VARIABLES
    \* ---- lock.go: refreshingLock
    refreshing,     \* map key -> bool; DOMAIN refreshing is the set of present keys
    lpc,            \* per caller: where the caller stands in its protocol
    lkey,           \* per caller: the key of its current call
    fatal,          \* the Go runtime aborted the process (concurrent map writes)
    \* ---- distributer.go: Distributer (registry)
    subscriptions,  \* map subscription id -> subscription document
    subscribers,    \* map <<ownerid, eventType>> -> sequence of subscription ids
    calls,          \* addSubscriber/remSubscriber invocations of the last registry handler
    lastEvent,      \* the last registry event handled, with the document it replaced
    \* ---- shared cache, event log, hash ring, wall clock
    log,            \* the watch log of the resource: sequence of watch nodes
    ring,           \* hash ring: subscription id -> owning instance
    ringChanges,    \* number of ring membership changes so far
    clock,          \* Unix time in seconds
    mainQueue,      \* EventCacheEventQueueKey (list, head first)
    dupQueue,       \* EventCacheEventQueueDuplicateKey (list, head first)
    pushed,         \* number of events pushed by the identifier pipeline
    subQueue,       \* per subscription id: EventCacheSubscriberEventQueueKeyPrefix list
    distID,         \* per subscription id: EventCacheDistIDPrefix counter
    stat,           \* per subscription id: callback counters total / failue
    \* ---- distributer.go: watch-and-distribute loop, per instance
    startCursor,    \* per instance: start cursor of the loop (0 = head key)
    \* ---- event.go: EventHandler, per instance
    hpc,            \* per instance: position of the pump goroutine
    hdist,          \* per instance: the dist inst being fanned out
    hsubs,          \* per instance: subscribers still to visit in handleEvent
    hnew,           \* per instance: newDist, the copy pushToSender stamps
    senders,        \* per instance: set of subscription ids with a local sender
    \* ---- event.go: EventSender, per instance and subscription id
    spc,            \* position of the sender goroutine
    srec,           \* the record the sender popped
    \* ---- history (not program state)
    enqueued,       \* per subscription id: DstbIDs in the order they were enqueued
    popped,         \* per subscription id: DstbIDs in the order senders popped them
    posted,         \* per subscription id: set of dist insts POSTed to the callback
    lastRun,        \* per subscription id: what the last sender iteration did
    \* ---- service/watch.go: the watch endpoint
    wreq,           \* the last watch request
    wret,           \* what the watcher returned for it
    wcalled,        \* the watcher entry points called for it, in order
    wresp,          \* the response written for it
    wprev,          \* request, watcher return and response of the request before
    wcount,         \* number of requests handled
    \* ---- the retention window of the watch log
    logHead,        \* number of nodes that fell off the retention window
    werr,           \* per instance: error of the loop's last GetNodesFromCursor
    \* ---- distributer.go: Distributer.Start and the list-and-watch session
    dpc,            \* position of Distributer.Start
    lwpc,           \* position of the list-and-watch session of LoadSubscriptions
    listDocs,       \* the documents of the initial LIST phase
    toList,         \* the documents of the LIST phase not delivered yet
    toSpawn,        \* the cursor types Start still has to range over
    loops,          \* the cursor types with a running watch-and-distribute loop
    \* ---- distributer.go: getResourceCursor
    persisted,      \* cache: subscriber cursor key -> persisted cursor
    resourceCursors,\* Distributer.resourceCursors: cursor type -> oldest cursor
    lastCursor,     \* the last getResourceCursor call: number, cursor type, result
    \* ---- distributer.go: watchAndDistributeWithCursor
    wout,           \* per instance: how the last iteration of the loop ended
    gin,            \* the event inst of the last getDistInst call
    gout,           \* what the last getDistInst call returned
    tpc,            \* per task of the mutex model: its position in its code
    listDones       \* the number of LIST-DONE signals the session delivered

lockVars == <<refreshing, lpc, lkey, fatal>>
regVars == <<subscriptions, subscribers, calls, lastEvent>>
cacheVars == <<log, ring, ringChanges, clock, mainQueue, dupQueue, pushed, subQueue, distID, stat>>
instVars == <<startCursor, hpc, hdist, hsubs, hnew, senders, spc, srec>>
histVars == <<enqueued, popped, posted, lastRun>>
svcVars == <<wreq, wret, wcalled, wresp, wprev, wcount>>
logVars == <<logHead, werr>>
startVars == <<dpc, lwpc, listDocs, toList, toSpawn, loops>>
curVars == <<persisted, resourceCursors, lastCursor>>
loopVars == <<wout>>
distVars == <<gin, gout>>
muVars == <<tpc, listDones>>
moreVars == <<loopVars, distVars, muVars>>
otherVars == <<svcVars, logVars, startVars, curVars, moreVars>>
vars == <<lockVars, regVars, cacheVars, instVars, histVars, otherVars>>

-----------------------------------------------------------------------------
(* Generic helpers *)

Range(s) == {s[i] : i \in 1..Len(s)}

NoDup(s) == \A i, j \in 1..Len(s) : i # j => s[i] # s[j]

Contains(s, x) == \E i \in 1..Len(s) : s[i] = x

RECURSIVE SeqFilterOut(_, _)
\* the sequence s without the elements equal to x, order kept
SeqFilterOut(s, x) ==
    IF s = <<>> THEN <<>>
    ELSE IF Head(s) = x THEN SeqFilterOut(Tail(s), x)
    ELSE <<Head(s)>> \o SeqFilterOut(Tail(s), x)

\* m with key k set to v, also when k is not yet a key of m
MapPut(m, k, v) == [x \in DOMAIN m \cup {k} |-> IF x = k THEN v ELSE m[x]]

\* m without key k
MapDel(m, k) == [x \in DOMAIN m \ {k} |-> m[x]]

\* Go's map read: the zero value for an absent key
MapGet(m, k, zero) == IF k \in DOMAIN m THEN m[k] ELSE zero

-----------------------------------------------------------------------------
(* lock.go: the refresh lock table.                                        *)
(* Each caller runs the protocol the table is built for:                   *)
(*   if canRefresh(k) { setRefreshing(k); refresh; setUnRefreshing(k) }    *)
(* A step is one critical section of lock.Lock()/lock.Unlock(), or one     *)
(* statement outside of any critical section.                              *)

Callers == {"A", "B", "C"}

Keys == {"k1", "k2"}

InitLock ==
    /\ refreshing = << >>
    /\ lpc = [p \in Callers |-> "idle"]
    /\ lkey = [p \in Callers |-> "k1"]
    /\ fatal = FALSE

\* canRefresh, lines 25-27 and 32: the read under the mutex. When the key
\* exists the result is !refreshing, fixed by this read.
canRefresh_read(p, k) ==
    /\ ~fatal
    /\ lpc[p] = "idle"
    /\ lkey' = [lkey EXCEPT ![p] = k]
    /\ lpc' = [lpc EXCEPT ![p] =
                 IF k \notin DOMAIN refreshing THEN "can_write"
                 ELSE IF ~refreshing[k] THEN "won"
                 ELSE "idle"]
    /\ UNCHANGED <<refreshing, fatal>>

\* canRefresh, lines 28-31: the key was absent at the read; the map is
\* written after lock.Unlock() and true is returned. The write is not
\* synchronized with the other callers' map accesses: the Go runtime either
\* performs it or aborts the process (fatal error: concurrent map writes).
canRefresh_write(p) ==
    /\ ~fatal
    /\ lpc[p] = "can_write"
    /\ \/ /\ refreshing' = MapPut(refreshing, lkey[p], FALSE)
          /\ lpc' = [lpc EXCEPT ![p] = "won"]
          /\ UNCHANGED fatal
       \/ /\ Callers \ {p} # {}
          /\ fatal' = TRUE
          /\ UNCHANGED <<refreshing, lpc>>
    /\ UNCHANGED lkey

\* setRefreshing, lines 36-40, called by a caller canRefresh answered true
setRefreshing(p) ==
    /\ ~fatal
    /\ lpc[p] = "won"
    /\ refreshing' = MapPut(refreshing, lkey[p], TRUE)
    /\ lpc' = [lpc EXCEPT ![p] = "refreshing"]
    /\ UNCHANGED <<lkey, fatal>>

\* setUnRefreshing, lines 43-47, called when the caller's refresh is done
setUnRefreshing(p) ==
    /\ ~fatal
    /\ lpc[p] = "refreshing"
    /\ refreshing' = MapPut(refreshing, lkey[p], FALSE)
    /\ lpc' = [lpc EXCEPT ![p] = "idle"]
    /\ UNCHANGED <<lkey, fatal>>

LockNext ==
    \/ \E p \in Callers, k \in Keys : canRefresh_read(p, k)
    \/ \E p \in Callers : canRefresh_write(p)
    \/ \E p \in Callers : setRefreshing(p)
    \/ \E p \in Callers : setUnRefreshing(p)

-----------------------------------------------------------------------------
(* Strings *)

Comma == ","

RECURSIVE Split(_)
\* strings.Split(s, ","): the substrings between the commas; one (empty)
\* substring when s holds no comma
Split(s) ==
    IF s = <<>> THEN << <<>> >>
    ELSE IF Head(s) = Comma THEN << <<>> >> \o Split(Tail(s))
    ELSE LET rest == Split(Tail(s))
         IN  << <<Head(s)>> \o Head(rest) >> \o Tail(rest)

RECURSIVE Join(_)
\* the comma-delimited form of a list of tokens
Join(toks) ==
    IF toks = <<>> THEN <<>>
    ELSE IF Len(toks) = 1 THEN Head(toks)
    ELSE Head(toks) \o <<Comma>> \o Join(Tail(toks))

-----------------------------------------------------------------------------
(* distributer.go: the subscription registry *)

\* subscriberKey, lines 351-353: "ownerid:eventType"
subscriberKey(ownerid, eventType) == <<ownerid, eventType>>

\* addSubscriber, lines 356-370: the index after the call
addSubscriber(index, ownerid, eventType, subid) ==
    LET subKey == subscriberKey(ownerid, eventType)
        ids == MapGet(index, subKey, <<>>)
    IN  IF Contains(ids, subid) THEN index
        ELSE MapPut(index, subKey, Append(ids, subid))

\* remSubscriber, lines 373-387: the index after the call
remSubscriber(index, ownerid, eventType, subid) ==
    LET subKey == subscriberKey(ownerid, eventType)
        ids == MapGet(index, subKey, <<>>)
    IN  MapPut(index, subKey, SeqFilterOut(ids, subid))

RECURSIVE addSubscribers(_, _, _, _)
\* for _, eventType := range eventTypes { d.addSubscriber(...) }
addSubscribers(index, ownerid, eventTypes, subid) ==
    IF eventTypes = <<>> THEN index
    ELSE addSubscribers(addSubscriber(index, ownerid, Head(eventTypes), subid),
                        ownerid, Tail(eventTypes), subid)

RECURSIVE remSubscribers(_, _, _, _)
\* for _, eventType := range eventTypes { d.remSubscriber(...) }
remSubscribers(index, ownerid, eventTypes, subid) ==
    IF eventTypes = <<>> THEN index
    ELSE remSubscribers(remSubscriber(index, ownerid, Head(eventTypes), subid),
                        ownerid, Tail(eventTypes), subid)

\* the invocations a range loop over eventTypes makes, in order
Invocations(kind, ownerid, eventTypes, subid) ==
    [i \in 1..Len(eventTypes) |-> <<kind, ownerid, eventTypes[i], subid>>]

RECURSIVE SeqMinus(_, _)
\* the elements of a that are not in b, in a's order
SeqMinus(a, b) ==
    IF a = <<>> THEN <<>>
    ELSE IF Contains(b, Head(a)) THEN SeqMinus(Tail(a), b)
    ELSE <<Head(a)>> \o SeqMinus(Tail(a), b)

\* util.CalSliceDiff(oldslice, newslice): subs are the elements of the old
\* slice missing from the new one, plugs those of the new missing from the old
CalSliceDiff(oldslice, newslice) ==
    [subs |-> SeqMinus(oldslice, newslice), plugs |-> SeqMinus(newslice, oldslice)]

\* metadata.Subscription.GetCacheKey: the content hash of the document
GetCacheKey(doc) ==
    <<doc.SubscriptionID, doc.OwnerID, doc.SubscriptionForm, doc.CallbackURL,
      doc.ConfirmMode, doc.ConfirmPattern, doc.TimeOutSeconds>>

NoDoc == [SubscriptionID |-> 0]

NoEvent == [n |-> 0, op |-> "none", doc |-> NoDoc, old |-> NoDoc]

InitRegistry ==
    /\ subscriptions = << >>
    /\ subscribers = << >>
    /\ calls = <<>>
    /\ lastEvent = NoEvent

\* a registry update that adds every event type of the new form
UpsertAdds_WholeForm(oldEventTypes, eventTypes) == eventTypes

\* the event types a registry update adds: the plugs of the diff
UpsertAdds(oldEventTypes, eventTypes) == CalSliceDiff(oldEventTypes, eventTypes).plugs

\* onUpsertSubscriptions, lines 137-174 (OnLister, OnAdd, OnUpdate)
onUpsertSubscriptions(subscription) ==
    LET id == subscription.SubscriptionID
        isExist == id \in DOMAIN subscriptions
    IN  IF ~isExist
        THEN LET eventTypes == Split(subscription.SubscriptionForm)
             IN  /\ subscriptions' = MapPut(subscriptions, id, subscription)
                 /\ subscribers' = addSubscribers(subscribers, subscription.OwnerID, eventTypes, id)
                 /\ calls' = Invocations("add", subscription.OwnerID, eventTypes, id)
                 /\ lastEvent' = [n |-> lastEvent.n + 1, op |-> "insert", doc |-> subscription, old |-> NoDoc]
        ELSE LET oldSubscription == subscriptions[id]
                 oldEventTypes == Split(oldSubscription.SubscriptionForm)
                 eventTypes == Split(subscription.SubscriptionForm)
                 subs == CalSliceDiff(oldEventTypes, eventTypes).subs
                 plugs == UpsertAdds(oldEventTypes, eventTypes)
                 removed == remSubscribers(subscribers, subscription.OwnerID, subs, id)
             IN  /\ subscriptions' =
                        IF GetCacheKey(subscription) # GetCacheKey(oldSubscription)
                        THEN MapPut(subscriptions, id, subscription)
                        ELSE subscriptions
                 /\ subscribers' = addSubscribers(removed, subscription.OwnerID, plugs, id)
                 /\ calls' = Invocations("rem", subscription.OwnerID, subs, id)
                             \o Invocations("add", subscription.OwnerID, plugs, id)
                 /\ lastEvent' = [n |-> lastEvent.n + 1, op |-> "update", doc |-> subscription, old |-> oldSubscription]

\* onDeleteSubscriptions, lines 178-194 (OnDelete)
onDeleteSubscriptions(subscription) ==
    LET id == subscription.SubscriptionID
        eventTypes == Split(subscription.SubscriptionForm)
    IN  /\ subscriptions' = MapDel(subscriptions, id)
        /\ subscribers' = remSubscribers(subscribers, subscription.OwnerID, eventTypes, id)
        /\ calls' = Invocations("rem", subscription.OwnerID, eventTypes, id)
        /\ lastEvent' = [n |-> lastEvent.n + 1, op |-> "delete", doc |-> subscription,
                         old |-> MapGet(subscriptions, id, NoDoc)]

\* FindSubscription(id): the stored document, NoDoc when there is none
FindSubscription(id) == MapGet(subscriptions, id, NoDoc)

RECURSIVE ConcatAll(_)
ConcatAll(ss) == IF ss = <<>> THEN <<>> ELSE Head(ss) \o ConcatAll(Tail(ss))

-----------------------------------------------------------------------------
(* Registry specification: list-and-watch events applied to one registry *)

Owners == {"o1", "o2"}

SubIDs == {7, 8}

RegTokens == {<<"A">>, <<"B">>, <<"C">>}

MaxFormLen == 2

\* the number of list-and-watch events a run delivers
MaxRegEvents == 2

\* the duplicate-free token lists of a subscription form (a set of tokens)
TokenLists ==
    UNION {{toks \in [1..n -> RegTokens] : NoDup(toks)} : n \in 1..MaxFormLen}

RegDocs ==
    {[SubscriptionID |-> id, OwnerID |-> o, SubscriptionForm |-> Join(toks),
      CallbackURL |-> "http://x/", ConfirmMode |-> "httpstatus",
      ConfirmPattern |-> "200", TimeOutSeconds |-> 0]
        : id \in SubIDs, o \in Owners, toks \in TokenLists}

-----------------------------------------------------------------------------
(* Fleet: instances, event types, JSON encodings *)

Instances == {1, 2}

\* the subscription the fleet serves (scenario S1), mirrored by every instance
FleetSub ==
    [SubscriptionID |-> 7, OwnerID |-> "o1", SubscriptionForm |-> <<"host", "create">>,
     CallbackURL |-> "http://x/", TimeOutSeconds |-> 0]

\* confirm mode and pattern of the fleet's subscription
ConfirmSettings ==
    {[ConfirmMode |-> "httpstatus", ConfirmPattern |-> "200"],
     [ConfirmMode |-> "regular", ConfirmPattern |-> "^OK"],
     [ConfirmMode |-> "regular", ConfirmPattern |-> "("]}

\* bounds of the environment
MaxLog == 1

MaxPush == 2

MaxRingChanges == 1

MaxTime == 301

TickSteps == {300, 301}

\* event.go line 51: defaultFusingEventExpireSec = 5 * 60
defaultFusingEventExpireSec == 300

\* the Unix time of Go's zero time.Time lies far before every clock value
ZeroTime == 0 - 100000

WatchEventTypes == {"create", "update", "delete"}

NoData == [none |-> TRUE]

\* a Go string as a sequence of chunks
Str(x) == IF x = "" THEN <<>> ELSE <<x>>

\* Go's json.Unmarshal leaves the field at its zero value when the key is missing
JsonGet(j, key, zero) == IF key \in DOMAIN j THEN j[key] ELSE zero

\* json.Marshal(*watch.WatchEventDetail)
MarshalWatchEventDetail(event) ==
    [bk_cursor |-> event.Cursor, bk_resource |-> event.Resource,
     bk_event_type |-> event.EventType, bk_detail |-> event.Detail]

\* json.Marshal(*metadata.EventInst)
MarshalEventInst(e) ==
    [event_id |-> e.ID, cursor |-> e.Cursor, event_type |-> e.EventType,
     obj_type |-> e.ObjType, action |-> e.Action, action_time |-> e.ActionTime,
     data |-> e.Data]

\* json.Unmarshal(eventData, &metadata.EventInst{})
UnmarshalEventInst(j) ==
    [ID |-> JsonGet(j, "event_id", 0), Cursor |-> JsonGet(j, "cursor", 0),
     EventType |-> JsonGet(j, "event_type", ""), ObjType |-> JsonGet(j, "obj_type", ""),
     Action |-> JsonGet(j, "action", ""), ActionTime |-> JsonGet(j, "action_time", ZeroTime),
     Data |-> JsonGet(j, "data", <<>>)]

\* json.Marshal(*metadata.DistInst): the embedded EventInst and the two ids
MarshalDistInst(d) ==
    [event_id |-> d.EventInst.ID, cursor |-> d.EventInst.Cursor,
     event_type |-> d.EventInst.EventType, obj_type |-> d.ObjType,
     action |-> d.EventInst.Action, action_time |-> d.EventInst.ActionTime,
     data |-> d.EventInst.Data,
     distribution_id |-> d.DstbID, subscription_id |-> d.SubscriptionID]

\* json.Unmarshal(distData, &metadata.DistInst{})
UnmarshalDistInst(j) ==
    [EventInst |-> UnmarshalEventInst(j), ObjType |-> JsonGet(j, "obj_type", ""),
     DstbID |-> JsonGet(j, "distribution_id", 0),
     SubscriptionID |-> JsonGet(j, "subscription_id", 0)]

\* metadata.DistInst.GetType: the object type for a relation event, the
\* object type followed by the action otherwise
GetType(d) ==
    IF d.EventInst.EventType = "relation" THEN Str(d.ObjType)
    ELSE Str(d.ObjType) \o Str(d.EventInst.Action)

\* redis LPUSH: insert at the head of the list
LPush(list, x) == <<x>> \o list

\* redis BLPOP on a non-empty list: the head is removed and returned
BLPopValue(list) == Head(list)

BLPopRest(list) == Tail(list)

\* redis BRPOPLPUSH on a non-empty source: the tail is removed and returned
BRPopValue(list) == list[Len(list)]

BRPopRest(list) == SubSeq(list, 1, Len(list) - 1)

\* hash.IsMatch(fmt.Sprint(subid)) on instance i
IsMatch(i, subid) == ring[subid] = i

-----------------------------------------------------------------------------
(* distributer.go: the watch-and-distribute loop; event.go: EventHandler.Handle *)

\* the start cursor names a node that fell off the retention window (start
\* cursor 0 is key.HeadKey(), which names the earliest retained node)
HeadNodeNotExist(start) == start # 0 /\ start <= logHead

\* watcher.GetNodesFromCursor(defaultWatchEventStepSize, startCursor, key): the
\* retained successors of the start cursor, in log order
GetNodesFromCursor(start) ==
    SubSeq(log, (IF start > logHead THEN start ELSE logHead) + 1, Len(log))

\* watcher.GetEventsWithCursorNodes: one watch event detail per node, in order
GetEventsWithCursorNodes(nodes) ==
    [k \in 1..Len(nodes) |->
        [Cursor |-> nodes[k].cursor, Resource |-> nodes[k].resource,
         EventType |-> nodes[k].eventType, Detail |-> nodes[k].detail]]

\* EventHandler.Handle, lines 275-394: the event inst built for a watch event
\* detail; Skip when the resource or the event type is not in the table
Skip == [skip |-> TRUE]

HandleEventInst(event, now) ==
    LET table ==
            [host |-> <<"instdata", "host">>,
             host_relation |-> <<"relation", "moduletransfer">>,
             biz |-> <<"instdata", "biz">>,
             set |-> <<"instdata", "set">>,
             module |-> <<"instdata", "module">>,
             object_instance |-> <<"instdata", "object">>]
    IN  IF event.Resource \notin DOMAIN table \/ event.EventType \notin WatchEventTypes
        THEN Skip
        ELSE [ID |-> 0, Cursor |-> event.Cursor,
              EventType |-> table[event.Resource][1], ObjType |-> table[event.Resource][2],
              Action |-> event.EventType, ActionTime |-> now,
              Data |-> <<[CurData |-> event.Detail, PreData |-> NoData]>>]

\* EventHandler.Handle, line 396: the bytes pushed to the main queue are
\* json.Marshal(event), the watch event detail
HandleEventData(event, now) == MarshalWatchEventDetail(event)

RECURSIVE Handle(_, _, _, _)
\* EventHandler.Handle, lines 273-410: the main queue after the call. An
\* event outside the table is skipped; an event whose json.Marshal or LPush
\* fails (its cursor is in failing) is logged and skipped (lines 397-407).
Handle(queue, events, now, failing) ==
    IF events = <<>> THEN queue
    ELSE IF HandleEventInst(Head(events), now) = Skip \/ Head(events).Cursor \in failing
         THEN Handle(queue, Tail(events), now, failing)
         ELSE Handle(LPush(queue, HandleEventData(Head(events), now)),
                     Tail(events), now, failing)

\* the event log's producer appends a node of the host resource
AppendNode(et) ==
    /\ Len(log) < MaxLog
    /\ log' = Append(log, [cursor |-> Len(log) + 1, resource |-> "host",
                           eventType |-> et, detail |-> [bk_host_id |-> 1]])
    /\ UNCHANGED <<otherVars, lockVars, regVars, instVars, histVars>>
    /\ UNCHANGED <<ring, ringChanges, clock, mainQueue, dupQueue, pushed, subQueue, distID, stat>>

\* the retention window of the log moves: its earliest retained node falls off
Truncate ==
    /\ logHead < Len(log)
    /\ logHead' = logHead + 1
    /\ UNCHANGED <<svcVars, werr, startVars, curVars, moreVars>>
    /\ UNCHANGED <<lockVars, regVars, cacheVars, instVars, histVars>>

\* watcher.GetHitNodeWithEventType(nodes, opts.EventTypes): the nodes of the
\* page with one of the event types; every node when no type is given
GetHitNodeWithEventType(nodes, eventTypes) ==
    IF eventTypes = <<>> THEN nodes
    ELSE SelectSeq(nodes, LAMBDA node : Contains(eventTypes, node.eventType))

\* watchAndDistributeWithCursor, lines 310-342: how one iteration ends for a
\* start cursor. distributeErr is the error of d.eventHandler.Distribute.
IterationOutcome(start, eventTypes, distributeErr) ==
    IF HeadNodeNotExist(start) THEN "HeadNodeNotExistError"
    ELSE IF Len(GetNodesFromCursor(start)) = 0 THEN "empty"
    ELSE IF Len(GetHitNodeWithEventType(GetNodesFromCursor(start), eventTypes)) = 0
    THEN "nohit"
    ELSE IF distributeErr THEN "failed"
    ELSE "distributed"

\* a loop that also moves its start cursor when the handler failed
Advances_OnFailure(outcome) == outcome \in {"nohit", "distributed", "failed"}

\* watchAndDistributeWithCursor, lines 327-345: the iterations that end with
\* startCursor = lastNode.Cursor
Advances(outcome) == outcome \in {"nohit", "distributed"}

\* watchAndDistributeWithCursor, lines 310-345: one iteration of the loop on
\* instance i with the event types of its options. On HeadNodeNotExistError
\* the loop sleeps and continues with the start cursor it has (lines 312-315),
\* as it does on an empty page and on a failed handler call; a page without
\* hit nodes moves the start cursor to its last node; the hit events of a
\* page are handed to the handler and the start cursor moves to its last node.
\* failing holds the cursors of the events whose push fails in the handler,
\* distributeErr says whether d.eventHandler.Distribute returns an error.
watchAndDistributeWithCursor(i, eventTypes, failing, distributeErr) ==
    LET nodes == GetNodesFromCursor(startCursor[i])
        lastNode == nodes[Len(nodes)]
        hitNodes == GetHitNodeWithEventType(nodes, eventTypes)
        events == GetEventsWithCursorNodes(hitNodes)
        outcome == IterationOutcome(startCursor[i], eventTypes, distributeErr)
    IN  /\ wout' = [wout EXCEPT ![i] = outcome]
        /\ werr' = [werr EXCEPT ![i] = IF outcome = "HeadNodeNotExistError"
                                       THEN outcome ELSE ""]
        /\ mainQueue' = IF outcome \in {"failed", "distributed"}
                        THEN Handle(mainQueue, events, clock, failing)
                        ELSE mainQueue
        /\ startCursor' = IF Advances(outcome)
                          THEN [startCursor EXCEPT ![i] = lastNode.cursor]
                          ELSE startCursor
        /\ UNCHANGED <<svcVars, logHead, startVars, curVars, distVars, muVars>>
        /\ UNCHANGED <<lockVars, regVars, histVars>>
        /\ UNCHANGED <<log, ring, ringChanges, clock, dupQueue, pushed, subQueue, distID, stat>>
        /\ UNCHANGED <<hpc, hdist, hsubs, hnew, senders, spc, srec>>

\* an iteration of the inner loop of instance i that changes something, with
\* the options watchAndDistribute builds (no event types, line 280), a
\* cache that takes every push and a handler that returns nil (line 409)
WatchAndDistribute(i) ==
    /\ IF HeadNodeNotExist(startCursor[i])
       THEN werr[i] # "HeadNodeNotExistError"
       ELSE GetNodesFromCursor(startCursor[i]) # <<>>
    /\ watchAndDistributeWithCursor(i, <<>>, {}, FALSE)

\* the identifier pipeline (and the other event producers of the cache) push
\* a well-formed event inst onto the main queue
IdentifierPush(action) ==
    /\ pushed < MaxPush
    /\ pushed' = pushed + 1
    /\ mainQueue' = LPush(mainQueue, MarshalEventInst(
            [ID |-> pushed + 1, Cursor |-> 0, EventType |-> "instdata", ObjType |-> "host",
             Action |-> action, ActionTime |-> clock,
             Data |-> <<[CurData |-> [bk_host_id |-> 1], PreData |-> NoData]>>]))
    /\ UNCHANGED <<otherVars, lockVars, regVars, instVars, histVars>>
    /\ UNCHANGED <<log, ring, ringChanges, clock, dupQueue, subQueue, distID, stat>>

\* ring membership changes out of band: subscription id s moves to instance j
RingChange(s, j) ==
    /\ ringChanges < MaxRingChanges
    /\ ring[s] # j
    /\ ring' = [ring EXCEPT ![s] = j]
    /\ ringChanges' = ringChanges + 1
    /\ UNCHANGED <<otherVars, lockVars, regVars, instVars, histVars>>
    /\ UNCHANGED <<log, clock, mainQueue, dupQueue, pushed, subQueue, distID, stat>>

\* time passes
Tick(d) ==
    /\ clock + d <= MaxTime
    /\ clock' = clock + d
    /\ UNCHANGED <<otherVars, lockVars, regVars, instVars, histVars>>
    /\ UNCHANGED <<log, ring, ringChanges, mainQueue, dupQueue, pushed, subQueue, distID, stat>>

-----------------------------------------------------------------------------
(* event.go: EventHandler (pump and fan-out), per instance *)

OwnerList == <<"o1", "o2">>

\* Distributer.FindSubscribers(eventType): the ids of the buckets of the event type
FindSubscribers(eventType) ==
    ConcatAll([k \in 1..Len(OwnerList) |->
                 MapGet(subscribers, subscriberKey(OwnerList[k], eventType), <<>>)])

NoDist == [none |-> TRUE]

\* a Go value that is a map[string]interface{} (the type assertion succeeds)
IsMap(x) == x # NoData

\* getDistInst, lines 438-477: the dist insts of an event, or an error. For a
\* generic object instance event the object type is the bk_obj_id of the
\* previous data (delete) or of the current data (otherwise).
getDistInst(event) ==
    LET distInst == [EventInst |-> event, ObjType |-> event.ObjType,
                     DstbID |-> 0, SubscriptionID |-> 0]
    IN  IF event.EventType = "instdata" /\ event.ObjType = "object"
        THEN IF Len(event.Data) <= 0
             THEN [err |-> FALSE, dists |-> <<>>]
             ELSE LET m == IF event.Action = "delete"
                           THEN event.Data[1].PreData
                           ELSE event.Data[1].CurData
                  IN  IF ~IsMap(m)
                      THEN [err |-> TRUE, dists |-> <<>>]
                      ELSE IF "bk_obj_id" \in DOMAIN m
                           THEN [err |-> FALSE,
                                 dists |-> <<[distInst EXCEPT !.ObjType = m.bk_obj_id]>>]
                           ELSE [err |-> FALSE, dists |-> <<distInst>>]
        ELSE [err |-> FALSE, dists |-> <<distInst>>]

\* popEvent, lines 414-435, and the head of handleEvent, lines 511-521:
\* BRPopLPush moves the tail of the main queue to the duplicate queue, the
\* bytes are decoded as an event inst and the subscribers of the type of its
\* dist inst are looked up; an error or no subscriber ends the handling
PopEvent(i) ==
    LET eventData == BRPopValue(mainQueue)
        event == UnmarshalEventInst(eventData)
        got == getDistInst(event)
        dist == got.dists[1]
        found == IF got.err \/ got.dists = <<>> THEN <<>>
                 ELSE FindSubscribers(GetType(dist))
    IN  /\ hpc[i] = "pop"
        /\ mainQueue # <<>>
        /\ mainQueue' = BRPopRest(mainQueue)
        /\ dupQueue' = LPush(dupQueue, eventData)
        /\ IF found = <<>>
           THEN UNCHANGED <<hpc, hdist, hsubs>>
           ELSE /\ hpc' = [hpc EXCEPT ![i] = "match"]
                /\ hdist' = [hdist EXCEPT ![i] = dist]
                /\ hsubs' = [hsubs EXCEPT ![i] = found]
        /\ UNCHANGED <<otherVars, lockVars, regVars, histVars>>
        /\ UNCHANGED <<log, ring, ringChanges, clock, pushed, subQueue, distID, stat>>
        /\ UNCHANGED <<startCursor, hnew, senders, spc, srec>>

\* the fan-out loop moves to the next subscriber, or back to the pump
NextSubscriber(i) ==
    /\ hsubs' = [hsubs EXCEPT ![i] = Tail(hsubs[i])]
    /\ hpc' = [hpc EXCEPT ![i] = IF Tail(hsubs[i]) = <<>> THEN "pop" ELSE "match"]

\* handleEvent, lines 524-527: the ownership check of the next subscriber
MatchSubscriber(i) ==
    /\ hpc[i] = "match"
    /\ IF IsMatch(i, Head(hsubs[i]))
       THEN /\ hpc' = [hpc EXCEPT ![i] = "push"]
            /\ UNCHANGED hsubs
       ELSE NextSubscriber(i)
    /\ UNCHANGED <<otherVars, lockVars, regVars, cacheVars, histVars>>
    /\ UNCHANGED <<startCursor, hdist, hnew, senders, spc, srec>>

\* a handler that numbers the records of every subscription id from one counter
nextDistID_Shared(counters, subid) ==
    LET Max(S) == CHOOSE x \in S : \A y \in S : y <= x
    IN  Max({counters[s] : s \in DOMAIN counters}) + 1

\* nextDistID, lines 479-481: INCR on the counter of the subscription id
nextDistID(counters, subid) == counters[subid] + 1

\* handleEvent line 530 and pushToSender, lines 484-499: the dist is copied,
\* a sender is created and run when the instance has none for the id, and the
\* copy is stamped with the next dist id (INCR) and the subscription id
PushToSender(i) ==
    LET subid == Head(hsubs[i])
        dstbID == nextDistID(distID, subid)
    IN  /\ hpc[i] = "push"
        /\ senders' = [senders EXCEPT ![i] = @ \cup {subid}]
        /\ distID' = [distID EXCEPT ![subid] = dstbID]
        /\ hnew' = [hnew EXCEPT ![i] =
                      [hdist[i] EXCEPT !.DstbID = dstbID, !.SubscriptionID = subid]]
        /\ hpc' = [hpc EXCEPT ![i] = "handle"]
        /\ UNCHANGED <<otherVars, lockVars, regVars, histVars>>
        /\ UNCHANGED <<log, ring, ringChanges, clock, mainQueue, dupQueue, pushed, subQueue, stat>>
        /\ UNCHANGED <<startCursor, hdist, hsubs, spc, srec>>

\* the list a record is pushed to by EventSender.Handle, line 96
SenderQueuePush(queue, distData) == LPush(queue, distData)

\* EventSender.Handle, lines 86-101, at the end of pushToSender (line 502):
\* the marshalled dist is pushed to the queue of its subscription id
SenderHandle(i) ==
    LET dist == hnew[i]
        key == dist.SubscriptionID
    IN  /\ hpc[i] = "handle"
        /\ subQueue' = [subQueue EXCEPT ![key] = SenderQueuePush(@, MarshalDistInst(dist))]
        /\ enqueued' = [enqueued EXCEPT ![key] = Append(@, dist.DstbID)]
        /\ NextSubscriber(i)
        /\ UNCHANGED <<otherVars, lockVars, regVars>>
        /\ UNCHANGED <<log, ring, ringChanges, clock, mainQueue, dupQueue, pushed, distID, stat>>
        /\ UNCHANGED <<startCursor, hdist, hnew, senders, spc, srec>>
        /\ UNCHANGED <<popped, posted, lastRun>>

-----------------------------------------------------------------------------
(* event.go: EventSender, per instance and subscription id *)

\* what the callback does with a request: no response (request error or
\* timeout), a response whose body cannot be read, or a response
Responses ==
    {[kind |-> "error"], [kind |-> "readerr"]} \cup
    {[kind |-> "resp", status |-> 200, body |-> <<"OK", "\n">>],
     [kind |-> "resp", status |-> 500, body |-> <<"FAIL">>]}

\* what one call of send can meet: a request that cannot be built (lines
\* 130-141), or what the callback does with the request
SendOutcomes == {[kind |-> "builderr"]} \cup Responses

\* strconv.Itoa on the status codes of the model
Itoa(n) == IF n = 200 THEN "200" ELSE IF n = 500 THEN "500" ELSE "?"

\* regexp.Compile(pattern) succeeds
RegexpCompiles(pattern) == pattern # "("

\* pattern.Match(respData) for the patterns of the model: "^OK" matches the
\* bodies that start with OK
RegexpMatch(pattern, body) == pattern = "^OK" /\ body # <<>> /\ Head(body) = "OK"

\* send, lines 169-185: errFinal after the confirmation. Both mismatch
\* branches assign errFinal = err with err == nil at that point (the error
\* of ioutil.ReadAll at line 171, of regexp.Compile at line 182), so only a
\* pattern that does not compile leaves errFinal set.
ConfirmErrFinal(subscription, resp) ==
    /\ subscription.ConfirmMode = "regular"
    /\ ~RegexpCompiles(subscription.ConfirmPattern)

\* send, lines 169-185: the confirmation returns an error
ConfirmFails(subscription, resp) ==
    IF subscription.ConfirmMode = "httpstatus"
    THEN Itoa(resp.status) # subscription.ConfirmPattern
    ELSE IF subscription.ConfirmMode = "regular"
    THEN \/ ~RegexpCompiles(subscription.ConfirmPattern)
         \/ ~RegexpMatch(subscription.ConfirmPattern, resp.body)
    ELSE FALSE

\* send, lines 115-190: the outcome of one call.
\*   total/failue: the increments of the two counters; posted: the request
\*   was issued (line 154); err: send returned an error
send(subscription, resp) ==
    IF subscription = NoDoc
    THEN [total |-> 0, failue |-> 0, posted |-> FALSE, err |-> TRUE]
    ELSE IF resp.kind = "builderr"
    THEN [total |-> 1, failue |-> 1, posted |-> FALSE, err |-> TRUE]
    ELSE IF resp.kind \in {"error", "readerr"}
    THEN [total |-> 1, failue |-> 1, posted |-> TRUE, err |-> TRUE]
    ELSE [total |-> 1,
          failue |-> IF ConfirmErrFinal(subscription, resp) THEN 1 ELSE 0,
          posted |-> TRUE,
          err |-> ConfirmFails(subscription, resp)]

\* a fusing check that also expires a record of exactly the window's age
Expired_AtWindow(now, dist) ==
    now - dist.EventInst.ActionTime >= defaultFusingEventExpireSec

\* run, line 212: the popped record is older than the fusing window
Expired(now, dist) == now - dist.EventInst.ActionTime > defaultFusingEventExpireSec

\* run, lines 194-197: the sender passes the ownership check (otherwise it
\* sleeps and checks again)
SenderCheck(i, s) ==
    /\ s \in senders[i]
    /\ spc[i][s] = "check"
    /\ IsMatch(i, s)
    /\ spc' = [spc EXCEPT ![i][s] = "blpop"]
    /\ UNCHANGED <<otherVars, lockVars, regVars, cacheVars, histVars>>
    /\ UNCHANGED <<startCursor, hpc, hdist, hsubs, hnew, senders, srec>>

\* the record BLPop takes from the list, and the list it leaves
SenderQueuePopValue(queue) == BLPopValue(queue)

SenderQueuePopRest(queue) == BLPopRest(queue)

\* run, lines 200-210: BLPop on the queue of the subscription id; a time-out
\* on an empty queue continues the loop, a record is decoded
SenderBLPop(i, s) ==
    /\ s \in senders[i]
    /\ spc[i][s] = "blpop"
    /\ IF subQueue[s] = <<>>
       THEN /\ spc' = [spc EXCEPT ![i][s] = "check"]
            /\ UNCHANGED <<subQueue, srec, popped>>
       ELSE LET dist == UnmarshalDistInst(SenderQueuePopValue(subQueue[s]))
            IN  /\ subQueue' = [subQueue EXCEPT ![s] = SenderQueuePopRest(@)]
                /\ srec' = [srec EXCEPT ![i][s] = dist]
                /\ popped' = [popped EXCEPT ![s] = Append(@, dist.DstbID)]
                /\ spc' = [spc EXCEPT ![i][s] = "got"]
    /\ UNCHANGED <<otherVars, lockVars, regVars>>
    /\ UNCHANGED <<log, ring, ringChanges, clock, mainQueue, dupQueue, pushed, distID, stat>>
    /\ UNCHANGED <<startCursor, hpc, hdist, hsubs, hnew, senders>>
    /\ UNCHANGED <<enqueued, posted, lastRun>>

NoResponse == [kind |-> "none"]

\* run, lines 212-221: an expired record is dropped, any other is sent; the
\* callback answers with resp
SenderSend(i, s, resp) ==
    LET dist == srec[i][s]
        age == clock - dist.EventInst.ActionTime
        out == send(FindSubscription(s), resp)
    IN  /\ s \in senders[i]
        /\ spc[i][s] = "got"
        /\ spc' = [spc EXCEPT ![i][s] = "check"]
        /\ srec' = [srec EXCEPT ![i][s] = NoDist]
        /\ IF Expired(clock, dist)
           THEN /\ resp = NoResponse
                /\ lastRun' = [lastRun EXCEPT ![s] =
                        [dstbID |-> dist.DstbID, age |-> age, sent |-> FALSE,
                         resp |-> NoResponse, err |-> FALSE]]
                /\ UNCHANGED <<stat, posted>>
           ELSE /\ resp \in SendOutcomes
                /\ stat' = [stat EXCEPT ![s] =
                        [total |-> @.total + out.total, failue |-> @.failue + out.failue]]
                /\ posted' = [posted EXCEPT ![s] =
                        IF out.posted THEN @ \cup {MarshalDistInst(dist)} ELSE @]
                /\ lastRun' = [lastRun EXCEPT ![s] =
                        [dstbID |-> dist.DstbID, age |-> age, sent |-> TRUE,
                         resp |-> resp, err |-> out.err]]
        /\ UNCHANGED <<otherVars, lockVars, regVars>>
        /\ UNCHANGED <<log, ring, ringChanges, clock, mainQueue, dupQueue, pushed, subQueue, distID>>
        /\ UNCHANGED <<startCursor, hpc, hdist, hsubs, hnew, senders>>
        /\ UNCHANGED <<enqueued, popped>>

-----------------------------------------------------------------------------
(* service/watch.go: the watch endpoint *)

\* watch.NoEventCursor, the sentinel cursor
NoEventCursor == "NoEventCursor"

\* a watch event detail with every field but cursor and resource at its zero value
SyntheticDetail(cursor, rsc) == [Cursor |-> cursor, Resource |-> rsc]

\* a response that always answers a miss with the sentinel cursor
generateResp_NoEcho(userCursor, rsc, events) ==
    IF events = <<>> \/ events[1].Cursor = NoEventCursor
    THEN [kind |-> "success", Watched |-> FALSE,
          Events |-> <<SyntheticDetail(NoEventCursor, rsc)>>]
    ELSE [kind |-> "success", Watched |-> TRUE, Events |-> events]

\* a response that reports a hit for every non-empty list
generateResp_HitNonEmpty(userCursor, rsc, events) ==
    IF events = <<>>
    THEN [kind |-> "success", Watched |-> FALSE,
          Events |-> <<SyntheticDetail(IF userCursor = "" THEN NoEventCursor
                                       ELSE userCursor, rsc)>>]
    ELSE [kind |-> "success", Watched |-> TRUE, Events |-> events]

\* Service.generateResp, lines 101-154 (userCursor is its startCursor parameter)
generateResp(userCursor, rsc, events) ==
    IF Len(events) = 0
    THEN IF userCursor = ""
         THEN [kind |-> "success", Watched |-> FALSE,
               Events |-> <<SyntheticDetail(NoEventCursor, rsc)>>]
         ELSE [kind |-> "success", Watched |-> FALSE,
               Events |-> <<SyntheticDetail(userCursor, rsc)>>]
    ELSE IF events[1].Cursor = NoEventCursor
         THEN IF userCursor = ""
              THEN [kind |-> "success", Watched |-> FALSE,
                    Events |-> <<SyntheticDetail(NoEventCursor, rsc)>>]
              ELSE [kind |-> "success", Watched |-> FALSE,
                    Events |-> <<SyntheticDetail(userCursor, rsc)>>]
         ELSE [kind |-> "success", Watched |-> TRUE, Events |-> events]

\* resp.WriteError(http.StatusOK, &metadata.RespError{...})
ErrorResp == [kind |-> "error"]

\* a dispatch that looks at StartFrom before Cursor
WatchEntry_StartFromFirst(options) ==
    IF options.StartFrom # 0 THEN "WatchWithStartFrom"
    ELSE IF options.Cursor # "" THEN "WatchWithCursor"
    ELSE "WatchFromNow"

\* Service.WatchEvent, lines 63-91: the watcher entry point of a request
WatchEntry(options) ==
    IF options.Cursor # "" THEN "WatchWithCursor"
    ELSE IF options.StartFrom # 0 THEN "WatchWithStartFrom"
    ELSE "WatchFromNow"

\* Service.WatchEvent, lines 32-99: the entry points called and the response
\* written for a request. The request says which of the three checks it
\* fails: the decoding of its body (line 39), the validation of its options
\* (line 47), the key of its resource (line 53), or none; ret is what the
\* watcher returns (an error, or events; WatchFromNow returns one event).
WatchEventOutcome(req, ret) ==
    LET options == [Cursor |-> req.Cursor, StartFrom |-> req.StartFrom,
                    Resource |-> req.resource]
        entry == WatchEntry(options)
    IN  IF req.fails \in {"decode", "validate", "key"}
        THEN [called |-> <<>>, resp |-> ErrorResp]
        ELSE IF ret.err
        THEN [called |-> <<entry>>, resp |-> ErrorResp]
        ELSE IF entry = "WatchWithCursor"
        THEN [called |-> <<entry>>,
              resp |-> generateResp(options.Cursor, options.Resource, ret.events)]
        ELSE IF entry = "WatchWithStartFrom"
        THEN [called |-> <<entry>>,
              resp |-> generateResp("", options.Resource, ret.events)]
        ELSE [called |-> <<entry>>,
              resp |-> generateResp("", options.Resource, <<ret.events[1]>>)]

\* the requests and the watcher returns of the specification
MaxRequests == 2

ClientCursors == {"", "c1", "c2"}

StartFroms == {0, 150}

ServiceResources == {"host", "biz"}

WatchRequests ==
    [fails : {"none", "decode", "validate", "key"},
     resource : ServiceResources, Cursor : ClientCursors, StartFrom : StartFroms]

\* the event lists a watcher can return for a resource
WatcherEvents(rsc) ==
    LET hit(c) == [Cursor |-> c, Resource |-> rsc, EventType |-> "create",
                   Detail |-> [bk_host_id |-> 1]]
        none == [Cursor |-> NoEventCursor, Resource |-> rsc, EventType |-> "",
                 Detail |-> NoData]
    IN  {<<>>, <<none>>, <<hit("c2")>>, <<hit("c2"), hit("c3")>>, <<hit("c2"), none>>}

NoRequest == [none |-> TRUE]

\* what the watcher can return for a request: nothing when it is not called
WatcherReturns(req) ==
    LET entry == WatchEntry([Cursor |-> req.Cursor, StartFrom |-> req.StartFrom])
    IN  IF req.fails # "none" THEN {NoRequest}
        ELSE {[err |-> TRUE, events |-> <<>>]} \cup
             {[err |-> FALSE, events |-> es] :
                 es \in {x \in WatcherEvents(req.resource) :
                             entry = "WatchFromNow" => Len(x) = 1}}

InitService ==
    /\ wreq = NoRequest
    /\ wret = NoRequest
    /\ wcalled = <<>>
    /\ wresp = NoRequest
    /\ wprev = NoRequest
    /\ wcount = 0

\* one request handled by Service.WatchEvent
WatchEvent(req, ret) ==
    LET out == WatchEventOutcome(req, ret)
    IN  /\ wcount < MaxRequests
        /\ wcount' = wcount + 1
        /\ wreq' = req
        /\ wret' = ret
        /\ wcalled' = out.called
        /\ wresp' = out.resp
        /\ wprev' = IF wcount = 0 THEN NoRequest
                    ELSE [req |-> wreq, ret |-> wret, resp |-> wresp]
        /\ UNCHANGED <<logVars, startVars, curVars, moreVars>>

-----------------------------------------------------------------------------
(* distributer.go: Distributer.Start and the list-and-watch session *)

\* watch.ListCursorTypes(), in the order Start ranges over them
CursorTypes == <<"host", "biz">>

\* the documents the subscription collection can hold at start-up
StartDocs ==
    {d \in RegDocs : d.OwnerID = "o1" /\ Len(Split(d.SubscriptionForm)) = 1}

\* the results of the initial LIST: at most one document per subscription id
InitialLists ==
    {<<>>} \cup {<<d>> : d \in StartDocs} \cup
    {<<d1, d2>> : d1 \in {d \in StartDocs : d.SubscriptionID = 7},
                  d2 \in {d \in StartDocs : d.SubscriptionID = 8}}

InitStart ==
    /\ dpc = "load"
    /\ lwpc = "idle"
    /\ listDocs \in InitialLists
    /\ toList = listDocs
    /\ toSpawn = CursorTypes
    /\ loops = {}

\* Start, lines 403-405, and LoadSubscriptions, lines 107-133: the
\* list-and-watch session is started with the registry handlers as its
\* callbacks, or the start fails
StartLoadSubscriptions(ok) ==
    /\ dpc = "load"
    /\ IF ok THEN dpc' = "cursors" /\ lwpc' = "list"
             ELSE dpc' = "failed" /\ lwpc' = lwpc
    /\ UNCHANGED <<listDocs, toList, toSpawn, loops>>
    /\ UNCHANGED <<svcVars, logVars, curVars, moreVars, lockVars, regVars, cacheVars, instVars, histVars>>

\* Start, lines 408-410: handleResourceCursors succeeds or fails
StartHandleResourceCursors(ok) ==
    /\ dpc = "cursors"
    /\ dpc' = IF ok THEN "wait" ELSE "failed"
    /\ UNCHANGED <<lwpc, listDocs, toList, toSpawn, loops>>
    /\ UNCHANGED <<svcVars, logVars, curVars, moreVars, lockVars, regVars, cacheVars, instVars, histVars>>

\* the session delivers the next document of the LIST phase to OnLister
ListOne ==
    /\ lwpc = "list"
    /\ toList # <<>>
    /\ onUpsertSubscriptions(Head(toList))
    /\ toList' = Tail(toList)
    /\ UNCHANGED <<dpc, lwpc, listDocs, toSpawn, loops>>
    /\ UNCHANGED <<svcVars, logVars, curVars, moreVars, lockVars, cacheVars, instVars, histVars>>

\* the session delivers LIST-DONE: onListSubscriptionsDone, lines 197-204,
\* runs up to its send on waitForHandleResourceCursors
ListDone ==
    /\ lwpc = "list"
    /\ toList = <<>>
    /\ lwpc' = "done"
    /\ UNCHANGED <<dpc, listDocs, toList, toSpawn, loops>>
    /\ UNCHANGED <<svcVars, logVars, curVars, moreVars, lockVars, regVars, cacheVars, instVars, histVars>>

\* a start that does not wait for the send of onListSubscriptionsDone
ListDoneSent_NoWait(lw) == TRUE

\* a sender is blocked in the send on waitForHandleResourceCursors (line 203)
ListDoneSent(lw) == lw = "done"

\* Start, lines 412-413: the receive on waitForHandleResourceCursors meets
\* the send of onListSubscriptionsDone (the channel has no buffer)
StartWait ==
    /\ dpc = "wait"
    /\ ListDoneSent(lwpc)
    /\ dpc' = "spawn"
    /\ lwpc' = IF lwpc = "done" THEN "watch" ELSE lwpc
    /\ UNCHANGED <<listDocs, toList, toSpawn, loops>>
    /\ UNCHANGED <<svcVars, logVars, curVars, moreVars, lockVars, regVars, cacheVars, instVars, histVars>>

\* Start, lines 415-420, and watchAndDistribute, lines 264-299: the next
\* cursor type gets its loop, or its resource key fails and Start returns
StartSpawn(ok) ==
    /\ dpc = "spawn"
    /\ IF toSpawn = <<>>
       THEN /\ ok
            /\ dpc' = "started"
            /\ UNCHANGED <<toSpawn, loops>>
       ELSE IF ok
       THEN /\ loops' = loops \cup {Head(toSpawn)}
            /\ toSpawn' = Tail(toSpawn)
            /\ dpc' = dpc
       ELSE /\ dpc' = "failed"
            /\ UNCHANGED <<toSpawn, loops>>
    /\ UNCHANGED <<lwpc, listDocs, toList>>
    /\ UNCHANGED <<svcVars, logVars, curVars, moreVars, lockVars, regVars, cacheVars, instVars, histVars>>

\* after LIST-DONE the session delivers the changes of the collection
WatchChange(doc, op) ==
    /\ lwpc = "watch"
    /\ lastEvent.n < MaxRegEvents
    /\ IF op = "delete" THEN onDeleteSubscriptions(doc) ELSE onUpsertSubscriptions(doc)
    /\ UNCHANGED <<svcVars, logVars, startVars, curVars, moreVars, lockVars, cacheVars, instVars, histVars>>

-----------------------------------------------------------------------------
(* distributer.go: getResourceCursor *)

\* a nil *watch.Cursor
NilCursor == [nil |-> TRUE]

\* watch.ParseCursorTypeFromEventType: the resource an event type is about
ParseCursorTypeFromEventType(eventType) == Head(eventType)

\* lines 221 and 225: the cache key of the cursor of a subscriber of a bucket
CursorKey(k, subid) == <<k, subid>>

\* lines 230-242: the persisted cursor of the key, nil when the value is empty
SubCursor(cursorKey) == MapGet(persisted, cursorKey, NilCursor)

\* lines 249-256: the oldest cursor of the type after one subscriber cursor
UpdateOldest(cursors, cursorType, subCursor) ==
    IF cursorType \notin DOMAIN cursors
    THEN MapPut(cursors, cursorType, subCursor)
    ELSE IF subCursor.Sec < cursors[cursorType].Sec
         THEN MapPut(cursors, cursorType, subCursor)
         ELSE cursors

\* the cursor keys getResourceCursor reads for a cursor type: one per
\* subscriber of every bucket whose event type maps to the type (lines 210-225)
CursorKeysOf(cursorType) ==
    UNION {{CursorKey(k, id) : id \in Range(subscribers[k])} :
              k \in {x \in DOMAIN subscribers :
                        ParseCursorTypeFromEventType(x[2]) = cursorType}}

RECURSIVE RangeCursors(_, _, _)
\* lines 210-258: the two loops over the buckets and their subscribers, in the
\* order the map and the slices are ranged over (keys holds what is left)
RangeCursors(cursors, cursorType, keys) ==
    IF keys = {} THEN cursors
    ELSE LET cursorKey == CHOOSE x \in keys : TRUE
             subCursor == SubCursor(cursorKey)
         IN  RangeCursors(IF subCursor = NilCursor THEN cursors
                          ELSE UpdateOldest(cursors, cursorType, subCursor),
                          cursorType, keys \ {cursorKey})

\* getResourceCursor, lines 206-262: the oldest-cursor table is updated with
\* the persisted cursor of every subscriber of the type, and its entry for
\* the type is returned (nil when it has none)
getResourceCursor(cursorType) ==
    LET cursors == RangeCursors(resourceCursors, cursorType, CursorKeysOf(cursorType))
    IN  /\ resourceCursors' = cursors
        /\ lastCursor' = [n |-> lastCursor.n + 1, cursorType |-> cursorType,
                          cursor |-> MapGet(cursors, cursorType, NilCursor)]
        /\ UNCHANGED persisted

\* the documents, cursor values and calls of the specification
MaxSec == 2

MaxCursorCalls == 2

CursorDocs ==
    {[SubscriptionID |-> id, OwnerID |-> "o1", SubscriptionForm |-> form,
      CallbackURL |-> "http://x/", ConfirmMode |-> "httpstatus",
      ConfirmPattern |-> "200", TimeOutSeconds |-> 0]
        : id \in SubIDs, form \in {<<"host", "create">>, <<"biz", "create">>}}

InitCursors ==
    /\ persisted = << >>
    /\ resourceCursors = << >>
    /\ lastCursor = [n |-> 0, cursorType |-> "", cursor |-> NilCursor]

\* a sender persists the cursor of a subscriber of a bucket after a confirmed
\* delivery: the cursor of the key advances
PersistCursor(k, subid, sec) ==
    /\ k \in DOMAIN subscribers
    /\ Contains(subscribers[k], subid)
    /\ CursorKey(k, subid) \in DOMAIN persisted => persisted[CursorKey(k, subid)].Sec < sec
    /\ persisted' = MapPut(persisted, CursorKey(k, subid), [Sec |-> sec])
    /\ UNCHANGED <<resourceCursors, lastCursor>>
    /\ UNCHANGED <<svcVars, logVars, startVars, moreVars, lockVars, regVars, cacheVars, instVars, histVars>>

\* the watch-and-distribute loop of a cursor type asks for its cursor
GetResourceCursor(cursorType) ==
    /\ lastCursor.n < MaxCursorCalls
    /\ getResourceCursor(cursorType)
    /\ UNCHANGED <<svcVars, logVars, startVars, moreVars, lockVars, regVars, cacheVars, instVars, histVars>>

\* the registry handlers, next to the cursor table
CursorRegistryChange(doc, op) ==
    /\ lastEvent.n < MaxRegEvents
    /\ IF op = "delete" THEN onDeleteSubscriptions(doc) ELSE onUpsertSubscriptions(doc)
    /\ UNCHANGED <<svcVars, logVars, startVars, curVars, moreVars, lockVars, cacheVars, instVars, histVars>>

-----------------------------------------------------------------------------
(* The watch-and-distribute loop over a log of several resources *)

MaxLoopLog == 2
MaxLoopQueue == 2

\* the details the log's producer writes: a host and a resource outside the
\* handler's table
LoopDetails ==
    {[resource |-> "host", detail |-> [bk_host_id |-> 1]],
     [resource |-> "process", detail |-> [bk_process_id |-> 1]]}

\* the event log's producer appends a node of any resource
AppendResourceNode(d, et) ==
    /\ Len(log) < MaxLoopLog
    /\ log' = Append(log, [cursor |-> Len(log) + 1, resource |-> d.resource,
                           eventType |-> et, detail |-> d.detail])
    /\ UNCHANGED <<otherVars, lockVars, regVars, instVars, histVars>>
    /\ UNCHANGED <<ring, ringChanges, clock, mainQueue, dupQueue, pushed, subQueue, distID, stat>>

\* one iteration of the loop of instance i, whatever its options, the pushes
\* that fail and the handler's answer
WatchIteration(i, eventTypes, failing, distributeErr) ==
    /\ Len(mainQueue) < MaxLoopQueue
    /\ watchAndDistributeWithCursor(i, eventTypes, failing, distributeErr)

-----------------------------------------------------------------------------
(* getDistInst over the event insts of the producers *)

\* the details of generic object instances (ObjectBase) and of hosts
ObjectDetails ==
    {[bk_inst_id |-> 1, bk_obj_id |-> "switch"],
     [bk_inst_id |-> 1, bk_obj_id |-> "router"],
     [bk_inst_id |-> 1]}

MaxDistCursor == 4

DistWatchEvents ==
    [Cursor : 1..MaxDistCursor, Resource : {"object_instance"},
     EventType : WatchEventTypes, Detail : ObjectDetails]
    \cup [Cursor : 1..MaxDistCursor, Resource : {"host"},
          EventType : WatchEventTypes, Detail : {[bk_host_id |-> 1]}]

\* the event insts EventHandler.Handle builds (lines 275-394)
HandleBuilt == {HandleEventInst(event, now) : event \in DistWatchEvents, now \in {0, 1}}

\* the event insts of the other producers of the main queue: a delete
\* carries the previous data only, the other actions the current data
ProducerBuilt ==
    {[ID |-> 1, Cursor |-> 0, EventType |-> "instdata", ObjType |-> "object",
      Action |-> a, ActionTime |-> 0,
      Data |-> <<[CurData |-> IF a = "delete" THEN NoData ELSE d,
                  PreData |-> IF a = "create" THEN NoData ELSE d]>>]
        : a \in WatchEventTypes, d \in ObjectDetails}
    \cup
    {[ID |-> 1, Cursor |-> 0, EventType |-> "instdata", ObjType |-> "object",
      Action |-> a, ActionTime |-> 0, Data |-> <<>>] : a \in WatchEventTypes}

\* one call of getDistInst
GetDistInst(event) ==
    /\ gin' = event
    /\ gout' = getDistInst(event)
    /\ UNCHANGED <<svcVars, logVars, startVars, curVars, loopVars, muVars>>
    /\ UNCHANGED <<lockVars, regVars, cacheVars, instVars, histVars>>

-----------------------------------------------------------------------------
(* The mutexes of the distributer and of the event handler *)

\* the number of LIST-DONE signals one list-and-watch session delivers (a
\* session that loses its watch lists again)
MaxListDones == 2

\* the operations on the cache, on the callback and on the channel
IOOps == {"GET", "INCR", "LPUSH", "BLPOP", "HTTP", "chan-send", "chan-recv"}

\* the mutex that guards each shared map
MutexOf ==
    [subscriptions |-> "subscriptionsMu", subscribers |-> "subscribersMu",
     resourceCursors |-> "resourceCursorsMu", senders |-> "sendersMu"]

\* a position of a task: the line it is at, the locks it holds there, the
\* operation it executes there and the shared map it reads there
Pos(line, held, doing, reading) ==
    [line |-> line, held |-> held, doing |-> doing, reading |-> reading]

\* the code of each task as the sequence of its positions; a task at its
\* first position is outside the function
Program ==
    [Start |-> <<
        Pos(399, {}, "", ""),
        Pos(403, {}, "", ""),                                     \* LoadSubscriptions
        Pos(408, {}, "", ""),                                     \* handleResourceCursors
        Pos(413, {}, "chan-recv", ""),                            \* <-d.waitForHandleResourceCursors
        Pos(415, {}, "", "") >>,                                  \* the watch loops run
     onListSubscriptionsDone |-> <<
        Pos(196, {}, "", ""),
        Pos(197, {}, "", ""),                                     \* called by the session
        Pos(201, {<<"subscriptionsMu", "R">>}, "", "subscriptions"),
        Pos(203, {<<"subscriptionsMu", "R">>}, "chan-send", "") >>,
     onUpsertSubscriptions |-> <<
        Pos(136, {}, "", ""),
        Pos(137, {}, "", ""),                                     \* called by the session
        Pos(143, {<<"subscriptionsMu", "W">>}, "", "subscriptions"),
        Pos(364, {<<"subscriptionsMu", "W">>, <<"subscribersMu", "W">>}, "", "subscribers"),
        Pos(153, {<<"subscriptionsMu", "W">>}, "", "") >>,
     findSubscribers |-> <<
        Pos(389, {}, "", ""),
        Pos(394, {<<"subscribersMu", "R">>}, "", "subscribers") >>,
     getResourceCursor |-> <<
        Pos(205, {}, "", ""),
        Pos(210, {<<"subscribersMu", "R">>}, "", "subscribers"),
        Pos(230, {<<"subscribersMu", "R">>}, "GET", ""),
        Pos(250, {<<"subscribersMu", "R">>, <<"resourceCursorsMu", "W">>}, "", "resourceCursors"),
        Pos(261, {<<"subscribersMu", "R">>}, "", "resourceCursors") >>,
     pushToSender |-> <<
        Pos(482, {}, "", ""),
        Pos(487, {<<"sendersMu", "W">>}, "", "senders"),
        Pos(494, {<<"sendersMu", "W">>}, "INCR", ""),
        Pos(96, {<<"sendersMu", "W">>}, "LPUSH", "") >>,
     send |-> <<
        Pos(114, {}, "", ""),
        Pos(154, {}, "HTTP", "") >>]

Tasks == DOMAIN Program

\* where a task is
At(task) == Program[task][tpc[task]]

\* the position a task moves to: the next one, the first after the last
NextPos(task) == IF tpc[task] = Len(Program[task]) THEN 1 ELSE tpc[task] + 1

\* the locks a task takes with its next step
Wanted(task) == Program[task][NextPos(task)].held \ At(task).held

\* a task inside its function is blocked in Lock on the mutex
WaitsToWrite(task, mutex) == tpc[task] > 1 /\ <<mutex, "W">> \in Wanted(task)

\* sync.RWMutex: a task can take the locks of a position when no other task
\* holds the same mutex for writing, nor for reading if it wants to write;
\* a pending Lock keeps new readers out
CanTake(task, locks) ==
    \A l \in locks : \A other \in Tasks \ {task} :
        /\ \A h \in At(other).held : h[1] = l[1] => (h[2] = "R" /\ l[2] = "R")
        /\ l[2] = "R" => ~WaitsToWrite(other, l[1])

\* a task executes up to its next position
TaskStep(task) ==
    /\ task \notin {"Start", "onListSubscriptionsDone"}
    /\ task = "onUpsertSubscriptions" => tpc["Start"] > 2
    /\ CanTake(task, Wanted(task))
    /\ tpc' = [tpc EXCEPT ![task] = NextPos(task)]
    /\ UNCHANGED listDones

\* Start executes up to its next position; it stays in the receive until a
\* send meets it, and it has returned once the loops run
StartStep ==
    /\ tpc["Start"] < 4
    /\ tpc' = [tpc EXCEPT !["Start"] = tpc["Start"] + 1]
    /\ UNCHANGED listDones

\* the session delivers LIST-DONE and onListSubscriptionsDone executes up to
\* its send on the channel
ListDoneStep ==
    /\ tpc["Start"] > 2
    /\ tpc["onListSubscriptionsDone"] < 4
    /\ tpc["onListSubscriptionsDone"] = 1 => listDones < MaxListDones
    /\ CanTake("onListSubscriptionsDone", Wanted("onListSubscriptionsDone"))
    /\ tpc' = [tpc EXCEPT !["onListSubscriptionsDone"] = @ + 1]
    /\ listDones' = IF tpc["onListSubscriptionsDone"] = 1 THEN listDones + 1 ELSE listDones

\* the send of line 203 meets the receive of line 413 (the channel has no
\* buffer): onListSubscriptionsDone returns and Start goes on
Rendezvous ==
    /\ At("onListSubscriptionsDone").doing = "chan-send"
    /\ At("Start").doing = "chan-recv"
    /\ tpc' = [tpc EXCEPT !["onListSubscriptionsDone"] = 1, !["Start"] = 5]
    /\ UNCHANGED listDones

-----------------------------------------------------------------------------
(* Specifications *)

FleetIDs == {FleetSub.SubscriptionID}

NoRun == [dstbID |-> 0, age |-> 0, sent |-> FALSE, resp |-> NoResponse, err |-> FALSE]

\* the cache, the log and the instances right after start-up
InitCache ==
    /\ log = <<>>
    /\ ring = [s \in FleetIDs |-> 1]
    /\ ringChanges = 0
    /\ clock = 0
    /\ mainQueue = <<>>
    /\ dupQueue = <<>>
    /\ pushed = 0
    /\ subQueue = [s \in FleetIDs |-> <<>>]
    /\ distID = [s \in FleetIDs |-> 0]
    /\ stat = [s \in FleetIDs |-> [total |-> 0, failue |-> 0]]

InitInstances ==
    /\ startCursor = [i \in Instances |-> 0]
    /\ hpc = [i \in Instances |-> "pop"]
    /\ hdist = [i \in Instances |-> NoDist]
    /\ hsubs = [i \in Instances |-> <<>>]
    /\ hnew = [i \in Instances |-> NoDist]
    /\ senders = [i \in Instances |-> {}]
    /\ spc = [i \in Instances |-> [s \in FleetIDs |-> "check"]]
    /\ srec = [i \in Instances |-> [s \in FleetIDs |-> NoDist]]

InitHistory ==
    /\ enqueued = [s \in FleetIDs |-> <<>>]
    /\ popped = [s \in FleetIDs |-> <<>>]
    /\ posted = [s \in FleetIDs |-> {}]
    /\ lastRun = [s \in FleetIDs |-> NoRun]

\* the registry after the LIST phase delivered the fleet's subscription
InitFleetRegistry(settings) ==
    \E cs \in settings :
        LET doc == [SubscriptionID |-> FleetSub.SubscriptionID, OwnerID |-> FleetSub.OwnerID,
                    SubscriptionForm |-> FleetSub.SubscriptionForm,
                    CallbackURL |-> FleetSub.CallbackURL, ConfirmMode |-> cs.ConfirmMode,
                    ConfirmPattern |-> cs.ConfirmPattern,
                    TimeOutSeconds |-> FleetSub.TimeOutSeconds]
        IN  /\ subscriptions = MapPut(<< >>, doc.SubscriptionID, doc)
            /\ subscribers = addSubscribers(<< >>, doc.OwnerID,
                                            Split(doc.SubscriptionForm), doc.SubscriptionID)
            /\ calls = <<>>
            /\ lastEvent = NoEvent

\* ---- the refresh lock table under concurrent callers
\* the whole log is retained and no loop has run
InitLog ==
    /\ logHead = 0
    /\ werr = [i \in Instances |-> ""]

\* the state of everything else after construction
InitLoop == wout = [i \in Instances |-> ""]

InitDist == gin = NoData /\ gout = NoData

InitMu == tpc = [task \in DOMAIN Program |-> 1] /\ listDones = 0

InitOther ==
    /\ InitService /\ InitLog /\ InitLoop /\ InitDist /\ InitMu
    /\ dpc = "load" /\ lwpc = "idle" /\ listDocs = <<>> /\ toList = <<>>
    /\ toSpawn = CursorTypes /\ loops = {}
    /\ InitCursors

LockInit ==
    InitLock /\ InitRegistry /\ InitCache /\ InitInstances /\ InitHistory /\ InitOther

LockStep == LockNext /\ UNCHANGED <<otherVars, regVars, cacheVars, instVars, histVars>>

LockSpec == LockInit /\ [][LockStep]_vars

\* ---- the registry under list-and-watch events
OnUpsert(doc) ==
    onUpsertSubscriptions(doc) /\ UNCHANGED <<otherVars, lockVars, cacheVars, instVars, histVars>>

OnDelete(doc) ==
    onDeleteSubscriptions(doc) /\ UNCHANGED <<otherVars, lockVars, cacheVars, instVars, histVars>>

RegInit ==
    InitLock /\ InitRegistry /\ InitCache /\ InitInstances /\ InitHistory /\ InitOther

RegNext ==
    /\ lastEvent.n < MaxRegEvents
    /\ \/ \E doc \in RegDocs : OnUpsert(doc)
       \/ \E doc \in RegDocs : OnDelete(doc)

RegSpec == RegInit /\ [][RegNext]_vars

\* ---- the registry and its subscriber index under longer runs of
\* list-and-watch events over fewer documents
MaxIndexEvents == 3

IndexDocs ==
    {doc \in RegDocs : doc.SubscriptionForm \in {<<"A">>, <<"B">>, <<"A", Comma, "B">>}}

\* the session delivers a DELETE with the document it delivered last for the
\* id, and can deliver it again
IndexNext ==
    /\ lastEvent.n < MaxIndexEvents
    /\ \/ \E doc \in IndexDocs : OnUpsert(doc)
       \/ \E doc \in IndexDocs :
             /\ FindSubscription(doc.SubscriptionID) \in {NoDoc, doc}
             /\ OnDelete(doc)

IndexSpec == RegInit /\ [][IndexNext]_vars

\* ---- the fleet: event log, watch loops, handlers and senders of two
\* instances that share the cache, under ring membership changes
Init ==
    /\ InitLock /\ InitCache /\ InitInstances /\ InitHistory /\ InitOther
    /\ InitFleetRegistry({[ConfirmMode |-> "httpstatus", ConfirmPattern |-> "200"]})

Next ==
    \/ \E et \in {"create", "update"} : AppendNode(et)
    \/ \E i \in Instances : WatchAndDistribute(i)
    \/ \E a \in {"create", "update"} : IdentifierPush(a)
    \/ \E s \in FleetIDs, j \in Instances : RingChange(s, j)
    \/ \E i \in Instances : PopEvent(i)
    \/ \E i \in Instances : MatchSubscriber(i)
    \/ \E i \in Instances : PushToSender(i)
    \/ \E i \in Instances : SenderHandle(i)
    \/ \E i \in Instances, s \in FleetIDs : SenderCheck(i, s)
    \/ \E i \in Instances, s \in FleetIDs : SenderBLPop(i, s)
    \/ \E i \in Instances, s \in FleetIDs, resp \in Responses \cup {NoResponse} :
            SenderSend(i, s, resp)

Spec == Init /\ [][Next]_vars

\* ---- one instance that owns every subscription id, with the wall clock
\* and every confirm setting
Solo == {1}

SoloInit ==
    /\ InitLock /\ InitCache /\ InitInstances /\ InitHistory /\ InitOther
    /\ InitFleetRegistry(ConfirmSettings)

SoloNext ==
    \/ \E et \in {"create", "update"} : AppendNode(et)
    \/ \E i \in Solo : WatchAndDistribute(i)
    \/ \E a \in {"create", "update"} : IdentifierPush(a)
    \/ \E d \in TickSteps : Tick(d)
    \/ \E i \in Solo : PopEvent(i)
    \/ \E i \in Solo : MatchSubscriber(i)
    \/ \E i \in Solo : PushToSender(i)
    \/ \E i \in Solo : SenderHandle(i)
    \/ \E i \in Solo, s \in FleetIDs : SenderCheck(i, s)
    \/ \E i \in Solo, s \in FleetIDs : SenderBLPop(i, s)
    \/ \E i \in Solo, s \in FleetIDs, resp \in Responses \cup {NoResponse} :
            SenderSend(i, s, resp)

SoloSpec == SoloInit /\ [][SoloNext]_vars

\* ---- one instance and its senders while the subscription can be deleted
\* from the registry and requests can fail to be built
DeleteSubscription(s) ==
    /\ s \in DOMAIN subscriptions
    /\ OnDelete(subscriptions[s])

SendNext ==
    \/ \E a \in {"create", "update"} : IdentifierPush(a)
    \/ \E d \in TickSteps : Tick(d)
    \/ \E i \in Solo : PopEvent(i)
    \/ \E i \in Solo : MatchSubscriber(i)
    \/ \E i \in Solo : PushToSender(i)
    \/ \E i \in Solo : SenderHandle(i)
    \/ \E i \in Solo, s \in FleetIDs : SenderCheck(i, s)
    \/ \E i \in Solo, s \in FleetIDs : SenderBLPop(i, s)
    \/ \E i \in Solo, s \in FleetIDs, resp \in SendOutcomes \cup {NoResponse} :
            SenderSend(i, s, resp)
    \/ \E s \in FleetIDs : DeleteSubscription(s)

SendSpec == SoloInit /\ [][SendNext]_vars

\* ---- the fan-out of two instances to two subscriptions, under every
\* assignment of the subscription ids to the instances
FanIDs == {7, 8}

\* the forms of the second subscription: the event type of the first, or another
FanForms == {<<"host", "create">>, <<"host", "update">>}

FanInit ==
    /\ InitLock /\ InitOther
    /\ \E form \in FanForms :
          LET doc(id, f) == [SubscriptionID |-> id, OwnerID |-> FleetSub.OwnerID,
                             SubscriptionForm |-> f, CallbackURL |-> FleetSub.CallbackURL,
                             ConfirmMode |-> "httpstatus", ConfirmPattern |-> "200",
                             TimeOutSeconds |-> FleetSub.TimeOutSeconds]
              first == addSubscribers(<< >>, FleetSub.OwnerID,
                                      Split(FleetSub.SubscriptionForm), 7)
          IN  /\ subscriptions = MapPut(MapPut(<< >>, 7, doc(7, FleetSub.SubscriptionForm)),
                                        8, doc(8, form))
              /\ subscribers = addSubscribers(first, FleetSub.OwnerID, Split(form), 8)
    /\ calls = <<>> /\ lastEvent = NoEvent
    /\ log = <<>> /\ ringChanges = 0 /\ clock = 0
    /\ ring \in [FanIDs -> Instances]
    /\ mainQueue = <<>> /\ dupQueue = <<>> /\ pushed = 0
    /\ subQueue = [s \in FanIDs |-> <<>>]
    /\ distID = [s \in FanIDs |-> 0]
    /\ stat = [s \in FanIDs |-> [total |-> 0, failue |-> 0]]
    /\ startCursor = [i \in Instances |-> 0]
    /\ hpc = [i \in Instances |-> "pop"]
    /\ hdist = [i \in Instances |-> NoDist]
    /\ hsubs = [i \in Instances |-> <<>>]
    /\ hnew = [i \in Instances |-> NoDist]
    /\ senders = [i \in Instances |-> {}]
    /\ spc = [i \in Instances |-> [s \in FanIDs |-> "check"]]
    /\ srec = [i \in Instances |-> [s \in FanIDs |-> NoDist]]
    /\ enqueued = [s \in FanIDs |-> <<>>]
    /\ popped = [s \in FanIDs |-> <<>>]
    /\ posted = [s \in FanIDs |-> {}]
    /\ lastRun = [s \in FanIDs |-> NoRun]

FanNext ==
    \/ \E a \in {"create", "update"} : IdentifierPush(a)
    \/ \E i \in Instances : PopEvent(i)
    \/ \E i \in Instances : MatchSubscriber(i)
    \/ \E i \in Instances : PushToSender(i)
    \/ \E i \in Instances : SenderHandle(i)

FanSpec == FanInit /\ [][FanNext]_vars

\* ---- the watch endpoint under a sequence of requests
SvcInit ==
    InitLock /\ InitRegistry /\ InitCache /\ InitInstances /\ InitHistory /\ InitOther

SvcNext ==
    \E req \in WatchRequests : \E ret \in WatcherReturns(req) :
        /\ WatchEvent(req, ret)
        /\ UNCHANGED <<lockVars, regVars, cacheVars, instVars, histVars>>

SvcSpec == SvcInit /\ [][SvcNext]_vars

\* ---- one instance with a log whose retention window moves, under fair
\* scheduling of the instance's goroutines
LiveInit ==
    /\ InitLock /\ InitCache /\ InitInstances /\ InitHistory /\ InitOther
    /\ InitFleetRegistry({[ConfirmMode |-> "httpstatus", ConfirmPattern |-> "200"]})

LiveNext ==
    \/ \E et \in {"create", "update"} : AppendNode(et)
    \/ Truncate
    \/ \E i \in Solo : WatchAndDistribute(i)
    \/ \E a \in {"create", "update"} : IdentifierPush(a)
    \/ \E i \in Solo : PopEvent(i)
    \/ \E i \in Solo : MatchSubscriber(i)
    \/ \E i \in Solo : PushToSender(i)
    \/ \E i \in Solo : SenderHandle(i)
    \/ \E i \in Solo, s \in FleetIDs : SenderCheck(i, s)
    \/ \E i \in Solo, s \in FleetIDs : SenderBLPop(i, s)
    \/ \E i \in Solo, s \in FleetIDs, resp \in Responses \cup {NoResponse} :
            SenderSend(i, s, resp)

\* every goroutine of the instance that can take a step eventually takes one
LiveFairness ==
    \A i \in Solo :
        /\ WF_vars(WatchAndDistribute(i))
        /\ WF_vars(PopEvent(i))
        /\ WF_vars(MatchSubscriber(i))
        /\ WF_vars(PushToSender(i))
        /\ WF_vars(SenderHandle(i))
        /\ \A s \in FleetIDs :
              /\ WF_vars(SenderCheck(i, s))
              /\ WF_vars(SenderBLPop(i, s))
              /\ WF_vars(\E resp \in Responses \cup {NoResponse} : SenderSend(i, s, resp))

LiveSpec == LiveInit /\ [][LiveNext]_vars /\ LiveFairness

\* ---- the start of a distributer next to its list-and-watch session
StartInit ==
    /\ InitLock /\ InitRegistry /\ InitCache /\ InitInstances /\ InitHistory
    /\ InitService /\ InitLog /\ InitStart /\ InitCursors /\ InitLoop /\ InitDist /\ InitMu

StartNext ==
    \/ \E ok \in BOOLEAN : StartLoadSubscriptions(ok)
    \/ \E ok \in BOOLEAN : StartHandleResourceCursors(ok)
    \/ ListOne
    \/ ListDone
    \/ StartWait
    \/ \E ok \in BOOLEAN : StartSpawn(ok)
    \/ \E doc \in StartDocs, op \in {"upsert", "delete"} : WatchChange(doc, op)

StartSpec == StartInit /\ [][StartNext]_vars

\* ---- the cursor floor next to the registry and the persisted cursors
CursorInit ==
    InitLock /\ InitRegistry /\ InitCache /\ InitInstances /\ InitHistory /\ InitOther

CursorNext ==
    \/ \E doc \in CursorDocs, op \in {"upsert", "delete"} : CursorRegistryChange(doc, op)
    \/ \E k \in DOMAIN subscribers, subid \in SubIDs, sec \in 1..MaxSec :
            PersistCursor(k, subid, sec)
    \/ \E cursorType \in Range(CursorTypes) : GetResourceCursor(cursorType)

CursorSpec == CursorInit /\ [][CursorNext]_vars

\* ---- the watch-and-distribute loop of one instance over a log of several
\* resources whose retention window moves, with pushes and handler calls
\* that can fail
LoopInit ==
    InitLock /\ InitRegistry /\ InitCache /\ InitInstances /\ InitHistory /\ InitOther

LoopNext ==
    \/ \E d \in LoopDetails, et \in WatchEventTypes : AppendResourceNode(d, et)
    \/ Truncate
    \/ \E i \in Solo, eventTypes \in {<<>>, <<"update">>},
          failing \in SUBSET (1..MaxLoopLog), distributeErr \in BOOLEAN :
            WatchIteration(i, eventTypes, failing, distributeErr)

LoopSpec == LoopInit /\ [][LoopNext]_vars

\* ---- getDistInst applied to the event insts of the producers
DistInit == RegInit

DistNext ==
    \/ \E event \in HandleBuilt : GetDistInst(event)
    \/ \E event \in ProducerBuilt : GetDistInst(event)

DistSpec == DistInit /\ [][DistNext]_vars

\* ---- the tasks that take the mutexes of the distributer and of the event
\* handler, and the same tasks under fair scheduling
MuFrame ==
    UNCHANGED <<svcVars, logVars, startVars, curVars, loopVars, distVars,
                lockVars, regVars, cacheVars, instVars, histVars>>

MuNext ==
    \/ \E task \in Tasks : TaskStep(task) /\ MuFrame
    \/ StartStep /\ MuFrame
    \/ ListDoneStep /\ MuFrame
    \/ Rendezvous /\ MuFrame

MuSpec == RegInit /\ [][MuNext]_vars

\* every goroutine that can run does run, and a goroutine that waits for a
\* mutex gets it when the mutex is free again and again (sync.RWMutex does
\* not starve a waiter)
MuFairness ==
    /\ \A task \in Tasks : SF_vars(TaskStep(task) /\ MuFrame)
    /\ WF_vars(StartStep /\ MuFrame)
    /\ SF_vars(ListDoneStep /\ MuFrame)
    /\ WF_vars(Rendezvous /\ MuFrame)

MuLiveSpec == MuSpec /\ MuFairness

-----------------------------------------------------------------------------
(* Claims *)

\* the event type of a log node by the resource table of EventHandler.Handle
NodeType(node) ==
    GetType(getDistInst(HandleEventInst(
        [Cursor |-> node.cursor, Resource |-> node.resource,
         EventType |-> node.eventType, Detail |-> node.detail], 0)).dists[1])

\* the subscription document subscribes to the event type
Subscribes(doc, eventType) == Contains(Split(doc.SubscriptionForm), eventType)

\* nothing is in flight: every watch loop has read the whole log, the main
\* queue and the subscriber queues are empty, every pump and sender is idle
Quiescent ==
    /\ \A i \in Instances : startCursor[i] = Len(log) /\ hpc[i] = "pop"
    /\ mainQueue = <<>>
    /\ \A s \in FleetIDs : subQueue[s] = <<>>
    /\ \A i \in Instances, s \in FleetIDs : spc[i][s] # "got"

\* C1: at-least-once delivery across the fleet. Every node of the log whose
\* type a live subscription subscribes to is written to that subscription's
\* queue and POSTed to its callback. Stated on the final result: once
\* nothing is in flight any more, every such node has been POSTed.
C1_AtLeastOnce ==
    Quiescent =>
        \A k \in 1..Len(log), s \in DOMAIN subscriptions :
            Subscribes(subscriptions[s], NodeType(log[k])) =>
                \E d \in posted[s] : d.cursor = log[k].cursor

\* C2: ownership exclusivity. An instance that spawns a sender for a
\* subscription id, or whose sender removes a record from the id's queue,
\* owns the id (hash.IsMatch is true on it) at that moment.
C2_Exclusive ==
    [][\A i \in Instances, s \in FleetIDs :
          (\/ s \notin senders[i] /\ s \in senders'[i]
           \/ spc[i][s] = "blpop" /\ spc'[i][s] = "got")
          => IsMatch(i, s)]_vars

\* caller p is between its setRefreshing(k) and its setUnRefreshing(k)
Holds(p, k) == lpc[p] = "refreshing" /\ lkey[p] = k

\* C3: single-flight refresh. While a caller that won canRefresh(k) and
\* called setRefreshing(k) has not called setUnRefreshing(k), no canRefresh(k)
\* of another caller returns true.
C3_SingleFlight ==
    [][\A a, b \in Callers, k \in Keys :
          (a # b /\ Holds(a, k)) =>
              ~(lpc[b] # "won" /\ lpc'[b] = "won" /\ lkey'[b] = k)]_vars

\* C4: refresh coalescing. At most one caller is between its
\* setRefreshing(k) and its setUnRefreshing(k) at any time.
C4_Coalesced ==
    \A k \in Keys : Cardinality({p \in Callers : Holds(p, k)}) <= 1

\* C5: the three operations are atomic with respect to each other. The
\* side-effect write of canRefresh(k) never overwrites a mark that a
\* setRefreshing(k) wrote after the read of that canRefresh(k).
C5_AtomicWrite ==
    [][\A p \in Callers :
          (lpc[p] = "can_write" /\ lpc'[p] = "won") =>
              ~(lkey[p] \in DOMAIN refreshing /\ refreshing[lkey[p]])]_vars

\* C6: the per-subscriber queue is FIFO. The senders pop the records of a
\* subscription id in the order EventSender.Handle enqueued them.
C6_FIFO ==
    \A s \in FleetIDs :
        /\ Len(popped[s]) <= Len(enqueued[s])
        /\ \A k \in 1..Len(popped[s]) : popped[s][k] = enqueued[s][k]

\* C7: DstbID monotonicity. The DstbID values the senders pop from the queue
\* of a subscription id are strictly increasing.
C7_Monotonic ==
    \A s \in FleetIDs :
        \A k \in 1..(Len(popped[s]) - 1) : popped[s][k] < popped[s][k + 1]

\* the sender of instance i and subscription id s ends an iteration on a
\* record it popped: it dropped the record as expired or passed it to send
Ran(i, s) == spc[i][s] = "got" /\ spc'[i][s] = "check"

\* C8: fusing. A popped record older than 300 s is not POSTed and leaves the
\* counters total and failue unchanged; a record of at most 300 s is passed
\* to send. Ages are differences of Unix seconds, as run computes them.
C8_Fusing ==
    [][\A i \in Instances, s \in FleetIDs :
          Ran(i, s) =>
              LET age == clock - srec[i][s].EventInst.ActionTime
              IN  /\ age > 300 => /\ stat' = stat
                                  /\ posted' = posted
                                  /\ ~lastRun'[s].sent
                  /\ age <= 300 => lastRun'[s].sent]_vars

\* a sender dropped a record of more than 300 s
C8_Witness ==
    \E s \in FleetIDs :
        lastRun[s].dstbID > 0 /\ lastRun[s].age > 300 /\ ~lastRun[s].sent

\* the response confirms the delivery under the subscription's confirm mode
Confirms(doc, resp) ==
    IF doc.ConfirmMode = "httpstatus" THEN Itoa(resp.status) = doc.ConfirmPattern
    ELSE RegexpMatch(doc.ConfirmPattern, resp.body)

\* C9: confirmation. For a callback that returns a response (and a pattern
\* that compiles), send succeeds iff the response confirms; total is
\* incremented by 1 either way, failue by 1 on a confirmation failure and by
\* 0 on success.
C9_Confirmation ==
    [][\A i \in Instances, s \in FleetIDs :
          (/\ Ran(i, s)
           /\ lastRun'[s].sent
           /\ lastRun'[s].resp.kind = "resp"
           /\ s \in DOMAIN subscriptions
           /\ RegexpCompiles(subscriptions[s].ConfirmPattern))
          => LET ok == Confirms(subscriptions[s], lastRun'[s].resp)
             IN  /\ lastRun'[s].err = ~ok
                 /\ stat'[s].total = stat[s].total + 1
                 /\ stat'[s].failue = stat[s].failue + (IF ok THEN 0 ELSE 1)]_vars

\* the number of invocations of kind on the event type in the last handler
Invoked(kind, eventType) ==
    Cardinality({k \in 1..Len(calls) : calls[k][1] = kind /\ calls[k][3] = eventType})

\* the last registry event updated an existing id and changed its form
FormChanged ==
    /\ lastEvent.op = "update"
    /\ lastEvent.old.SubscriptionForm # lastEvent.doc.SubscriptionForm

\* C10: registry diff. An upsert of an existing id with a changed form
\* invokes remSubscriber exactly once for each event type of the old form
\* that is not in the new one, addSubscriber exactly once for each event
\* type of the new form that is not in the old one, and neither for an
\* event type of both forms or of none.
C10_RegistryDiff ==
    FormChanged =>
        LET old == Range(Split(lastEvent.old.SubscriptionForm))
            new == Range(Split(lastEvent.doc.SubscriptionForm))
        IN  \A t \in RegTokens :
                /\ Invoked("rem", t) = (IF t \in old \ new THEN 1 ELSE 0)
                /\ Invoked("add", t) = (IF t \in new \ old THEN 1 ELSE 0)

\* the form of an existing id went from "A,B" to "B,C"
C10_Witness ==
    /\ FormChanged
    /\ lastEvent.old.SubscriptionForm = <<"A", ",", "B">>
    /\ lastEvent.doc.SubscriptionForm = <<"B", ",", "C">>
    /\ Len(calls) = 2

\* the watcher was called for the last request and returned events
Answered == wreq # NoRequest /\ wreq.fails = "none" /\ ~wret.err

\* the watcher returned no event: an empty list or a first event carrying
\* the sentinel cursor
Miss(events) == events = <<>> \/ events[1].Cursor = NoEventCursor

\* C11: cursor echo. For a request with a non-empty cursor c on resource R
\* for which the watcher returns no event, the response has Watched = false
\* and Events = <<{Cursor = c, Resource = R}>>; the same request with the
\* same watcher return right after it gets the same response.
C11_CursorEcho ==
    (Answered /\ wreq.Cursor # "" /\ Miss(wret.events)) =>
        /\ wresp = [kind |-> "success", Watched |-> FALSE,
                    Events |-> <<[Cursor |-> wreq.Cursor, Resource |-> wreq.resource]>>]
        /\ (wprev # NoRequest /\ wprev.req = wreq /\ wprev.ret = wret) =>
                wprev.resp = wresp

\* a cursor request that missed was repeated and missed again
C11_Witness ==
    /\ Answered /\ wreq.Cursor = "c1" /\ wret.events # <<>> /\ Miss(wret.events)
    /\ wprev # NoRequest /\ wprev.req = wreq /\ wprev.ret = wret
    /\ ~wresp.Watched

\* C12: watch response shape. Watched is true iff the watcher's list is
\* non-empty and its first cursor is not the sentinel, and then Events is the
\* list; otherwise Events is one element tagged with the requested resource,
\* carrying the sentinel when the request had no cursor. Events is never empty.
C12_ResponseShape ==
    Answered =>
        /\ wresp.kind = "success"
        /\ wresp.Watched <=> ~Miss(wret.events)
        /\ wresp.Watched => wresp.Events = wret.events
        /\ ~wresp.Watched =>
              /\ Len(wresp.Events) = 1
              /\ wresp.Events[1].Resource = wreq.resource
              /\ wreq.Cursor = "" => wresp.Events[1].Cursor = NoEventCursor
        /\ wresp.Events # <<>>

\* a start-from request was answered with a list that starts with the sentinel
C12_Witness ==
    /\ Answered /\ wreq.Cursor = "" /\ wreq.StartFrom # 0
    /\ wret.events # <<>> /\ wret.events[1].Cursor = NoEventCursor
    /\ wresp.Events = <<[Cursor |-> NoEventCursor, Resource |-> wreq.resource]>>

\* C13: watch request dispatch. A request that passes decoding, validation
\* and the key lookup calls exactly one entry point: WatchWithCursor iff its
\* Cursor is non-empty, else WatchWithStartFrom iff StartFrom # 0, else
\* WatchFromNow; a request that fails one of the three calls none and gets
\* an error envelope.
C13_Dispatch ==
    wreq # NoRequest =>
        IF wreq.fails # "none"
        THEN wcalled = <<>> /\ wresp = ErrorResp
        ELSE wcalled = <<IF wreq.Cursor # "" THEN "WatchWithCursor"
                         ELSE IF wreq.StartFrom # 0 THEN "WatchWithStartFrom"
                         ELSE "WatchFromNow">>

\* a request with both a cursor and a start time went to WatchWithCursor
C13_Witness ==
    /\ wreq # NoRequest /\ wreq.fails = "none"
    /\ wreq.Cursor # "" /\ wreq.StartFrom # 0
    /\ wcalled = <<"WatchWithCursor">>

\* the start cursor of the watch loop of instance i fell off the retention window
FellOff(i) == HeadNodeNotExist(startCursor[i])

\* C14: log truncation recovery. A watch-and-distribute loop whose start
\* cursor fell off the retention window eventually continues from a cursor
\* that GetNodesFromCursor accepts (the head key), instead of retrying the
\* fallen-off cursor forever.
C14_TruncationRecovery == \A i \in Solo : FellOff(i) ~> ~FellOff(i)

\* the dist ids a subscription can see in a behaviour of the model
DstbIDs == 1..(MaxPush + MaxLog)

\* the last iteration of a sender of subscription id s POSTed record n and
\* send returned an error (the callback failed or did not confirm)
FailedDelivery(s, n) ==
    lastRun[s].dstbID = n /\ lastRun[s].sent /\ lastRun[s].err

\* the event of record n was POSTed to subscription id s again in a later record
ReplayedAfter(s, n) ==
    \E d0, d \in posted[s] :
        /\ d0.distribution_id = n
        /\ d.distribution_id > n
        /\ d.event_id = d0.event_id /\ d.cursor = d0.cursor

\* C15: replay after a failed callback. A record the sender dropped because
\* its callback failed or was not confirmed is eventually presented to the
\* same subscriber again.
C15_Replay ==
    \A s \in FleetIDs, n \in DstbIDs : FailedDelivery(s, n) ~> ReplayedAfter(s, n)

\* document doc is in the registry and in the subscriber index
Registered(doc) ==
    /\ doc.SubscriptionID \in DOMAIN subscriptions
    /\ subscriptions[doc.SubscriptionID] = doc
    /\ \A k \in 1..Len(Split(doc.SubscriptionForm)) :
          Contains(MapGet(subscribers,
                          subscriberKey(doc.OwnerID, Split(doc.SubscriptionForm)[k]), <<>>),
                   doc.SubscriptionID)

\* C16: LIST-DONE gating. No watch-and-distribute loop runs before the
\* session delivered LIST-DONE: when Start is past its wait, the LIST phase
\* is over, and when LIST-DONE is delivered every document of the LIST phase
\* is in the registry and its subscriber index.
C16_ListDoneGating ==
    /\ (dpc \in {"spawn", "started"} \/ loops # {}) => (toList = <<>> /\ lwpc = "watch")
    /\ lwpc = "done" => \A k \in 1..Len(listDocs) : Registered(listDocs[k])

\* the first loop runs after a LIST phase of two documents
C16_Witness ==
    /\ loops = {"host"}
    /\ Len(listDocs) = 2 /\ toList = <<>>
    /\ lastEvent.n = 2

\* the persisted cursors of the subscribers that are in the buckets of a
\* cursor type
LiveCursors(cursorType) ==
    {persisted[key] : key \in CursorKeysOf(cursorType) \cap DOMAIN persisted}

\* the cursor with the minimum ClusterTime.Sec of a set, nil for the empty set
Floor(cursors) ==
    IF cursors = {} THEN NilCursor
    ELSE CHOOSE c \in cursors : \A d \in cursors : c.Sec <= d.Sec

\* C17: cursor floor. Every call getResourceCursor(t) returns the cursor with
\* the minimum ClusterTime.Sec among the cursors persisted at the time of the
\* call for the subscription ids that are in the buckets of t at that time,
\* nil when there is none.
C17_CursorFloor ==
    [][lastCursor'.n # lastCursor.n =>
          lastCursor'.cursor = Floor(LiveCursors(lastCursor'.cursorType))]_vars

\* C18: ownership drift. A record leaves the queue of a subscription id only
\* through the pop of a sender whose instance owns the id at that moment: an
\* instance on which IsMatch became false removes no further record.
C18_OwnershipDrift ==
    [][\A s \in FleetIDs :
          Len(subQueue'[s]) < Len(subQueue[s]) =>
              \E i \in Instances :
                  IsMatch(i, s) /\ spc[i][s] = "blpop" /\ spc'[i][s] = "got"]_vars

\* the watch loop of instance i handed a page to EventHandler.Handle
Handed(i) == startCursor'[i] # startCursor[i]

\* C19: ingestion mapping. The record EventHandler.Handle pushes for a watch
\* detail of the table decodes in popEvent to an event inst with the
\* detail's cursor and the (EventType, ObjType, Action) triple of the table.
C19_IngestionMapping ==
    [][\A i \in Instances :
          Handed(i) =>
              LET events == GetEventsWithCursorNodes(GetNodesFromCursor(startCursor[i]))
                  n == Len(events)
              IN  /\ Len(mainQueue') = Len(mainQueue) + n
                  /\ \A k \in 1..n :
                        LET want == HandleEventInst(events[k], clock)
                            got == UnmarshalEventInst(mainQueue'[n - k + 1])
                        IN  /\ got.Cursor = events[k].Cursor
                            /\ got.EventType = want.EventType
                            /\ got.ObjType = want.ObjType
                            /\ got.Action = want.Action]_vars

\* the log holds one host create event, nothing else produced an event and
\* the whole log is retained
ColdLog ==
    /\ Len(log) = 1 /\ log[1].eventType = "create"
    /\ pushed = 0 /\ logHead = 0

\* exactly one dist inst was POSTed for the subscription: number 1, of the
\* event of the log, and the counters are total = 1, failue = 0
ColdDelivered(s) ==
    /\ Len(log) = 1
    /\ Cardinality(posted[s]) = 1
    /\ \A d \in posted[s] :
          /\ d.subscription_id = s /\ d.distribution_id = 1
          /\ d.cursor = log[1].cursor
          /\ d.event_type = "instdata" /\ d.obj_type = "host" /\ d.action = "create"
    /\ stat[s] = [total |-> 1, failue |-> 0]

\* C20: cold start end to end. With one instance that owns the subscription
\* and a log of one subscribed event, the system eventually POSTs exactly one
\* dist inst with DstbID 1 and the mapped type, and the counters are
\* total = 1, failue = 0.
C20_ColdStart ==
    \A s \in FleetIDs : ColdLog ~> (ColdDelivered(s) \/ ~ColdLog)

\* the watch loop of instance i ended an iteration in another way than the
\* one before, or moved its start cursor
Iterated(i) == wout'[i] # wout[i] \/ startCursor'[i] # startCursor[i]

\* C21: cursor advance of the watch-and-distribute loop. The start cursor
\* changes only to the cursor of the last node of the page just fetched, and
\* only when the page has no hit node or the handler accepted its hit
\* events; an iteration that ends on an empty page, on HeadNodeNotExistError
\* or on a handler failure leaves the start cursor (and so the page that is
\* fetched next) as it is.
C21_CursorAdvance ==
    [][\A i \in Instances :
          LET page == GetNodesFromCursor(startCursor[i])
          IN  /\ startCursor'[i] # startCursor[i] =>
                    /\ ~HeadNodeNotExist(startCursor[i])
                    /\ page # <<>>
                    /\ startCursor'[i] = page[Len(page)].cursor
                    /\ wout'[i] \in {"nohit", "distributed"}
              /\ (Iterated(i) /\ wout'[i] \in {"empty", "HeadNodeNotExistError", "failed"}) =>
                    /\ startCursor'[i] = startCursor[i]
                    /\ log' = log /\ logHead' = logHead]_vars

\* the loop handed a page to the handler and then moved past a page without
\* hit nodes
C21_Witness ==
    \E i \in Solo :
        /\ wout[i] = "nohit"
        /\ startCursor[i] = 2
        /\ mainQueue # <<>>

\* the main event queue holds the event inst of a watch event
OnMainQueue(queue, event, now) ==
    \E k \in 1..Len(queue) : queue[k] = HandleEventData(event, now)

\* C28: no event skipped on advance. Whenever the loop moves its start cursor
\* past a page with hit events, every hit event of the page that the
\* handler's table covers is on the main event queue (for the event types
\* of some options the loop can run with).
C28_NoSkip ==
    [][\A i \in Instances :
          LET page == GetNodesFromCursor(startCursor[i])
          IN  (startCursor'[i] # startCursor[i] /\ wout'[i] = "distributed") =>
                 \E types \in {<<>>, <<"update">>} :
                    LET hits == GetEventsWithCursorNodes(GetHitNodeWithEventType(page, types))
                    IN  /\ hits # <<>>
                        /\ \A k \in 1..Len(hits) :
                              HandleEventInst(hits[k], clock) # Skip =>
                                 OnMainQueue(mainQueue', hits[k], clock)]_vars

\* the buckets of the subscriber index that hold id
BucketsOf(id) == {k \in DOMAIN subscribers : Contains(subscribers[k], id)}

\* the last registry event deleted an id and carried the document the
\* registry had stored for it
DeletedStored ==
    /\ lastEvent.op = "delete"
    /\ lastEvent.old # NoDoc
    /\ lastEvent.doc = lastEvent.old

\* C22: registry delete. After a DELETE event for an id that carries the
\* document the registry last stored for it, the registry holds no document
\* for the id and the id is in no bucket of the subscriber index.
C22_RegistryDelete ==
    DeletedStored =>
        /\ FindSubscription(lastEvent.doc.SubscriptionID) = NoDoc
        /\ BucketsOf(lastEvent.doc.SubscriptionID) = {}

\* the registry holds a subscription with the id, the owner and the event
\* type in its form
Subscribed(id, o, tok) ==
    /\ FindSubscription(id) # NoDoc
    /\ FindSubscription(id).OwnerID = o
    /\ Contains(Split(FindSubscription(id).SubscriptionForm), tok)

\* C27: subscriber index consistency. After any sequence of list-and-watch
\* events, an id is in bucket (owner, event type) iff the registry holds a
\* subscription with that id, that OwnerID and the event type in its form,
\* and no bucket holds an id twice.
C27_IndexConsistency ==
    /\ \A o \in Owners, tok \in RegTokens, id \in SubIDs :
          subscriberKey(o, tok) \in BucketsOf(id) <=> Subscribed(id, o, tok)
    /\ \A k \in DOMAIN subscribers : NoDup(subscribers[k])

\* the object type getDistInst is to resolve for a generic object event
ResolvedObjType(event) ==
    LET m == IF event.Action = "delete" THEN event.Data[1].PreData
             ELSE event.Data[1].CurData
    IN  IF IsMap(m) /\ "bk_obj_id" \in DOMAIN m THEN m.bk_obj_id ELSE "object"

\* C23: object type resolution. For every instance-data event of the generic
\* object type that carries data, created, updated or deleted, getDistInst
\* returns exactly one dist inst, whose ObjType is the bk_obj_id of the
\* previous data on delete and of the current data otherwise, and the
\* generic object type when the field is missing; the events
\* EventHandler.Handle builds are among them.
C23_ObjectType ==
    (/\ gin # NoData
     /\ gin.EventType = "instdata" /\ gin.ObjType = "object"
     /\ gin.Data # <<>>) =>
        /\ ~gout.err
        /\ Len(gout.dists) = 1
        /\ gout.dists[1].ObjType = ResolvedObjType(gin)

\* the attempt of the sender on a record fails before the confirmation: the
\* subscription is absent from the registry, the request cannot be built,
\* the callback does not answer, the body cannot be read or the pattern does
\* not compile
FailsBeforeConfirmation(s, resp) ==
    \/ FindSubscription(s) = NoDoc
    \/ resp.kind \in {"builderr", "error", "readerr"}
    \/ /\ FindSubscription(s).ConfirmMode = "regular"
       /\ ~RegexpCompiles(FindSubscription(s).ConfirmPattern)

\* C24: counters on failures before confirmation. For every record that is
\* not expired and that the sender attempts, total grows by exactly 1, and
\* failue grows by exactly 1 when the attempt fails before confirmation; the
\* record is dropped, nothing is POSTed for an absent subscription, and the
\* sender goes on to its next iteration.
C24_FailureCounters ==
    [][\A i \in Instances, s \in FleetIDs :
          (Ran(i, s) /\ lastRun'[s].sent) =>
              /\ stat'[s].total = stat[s].total + 1
              /\ FailsBeforeConfirmation(s, lastRun'[s].resp) =>
                    /\ stat'[s].failue = stat[s].failue + 1
                    /\ lastRun'[s].err
              /\ FindSubscription(s) = NoDoc => posted' = posted
              /\ srec'[i][s] = NoDist]_vars

\* C25: no mutex across I/O. In every reachable state no task executes a
\* cache operation, an HTTP call or a channel send while it holds one of
\* the four mutexes, and a task that reads a shared map holds the mutex of
\* that map.
C25_NoMutexAcrossIO ==
    \A task \in Tasks :
        /\ At(task).doing \in IOOps \ {"chan-recv"} => At(task).held = {}
        /\ At(task).reading # "" =>
              \E h \in At(task).held : h[1] = MutexOf[At(task).reading]

\* C29: liveness of the LIST-DONE signal at start-up. Once the session
\* delivered LIST-DONE, Start is eventually past its receive and
\* onListSubscriptionsDone returns and releases subscriptionsMu; an upsert
\* the session delivers takes subscriptionsMu eventually.
C29_ListDoneLiveness ==
    /\ (tpc["onListSubscriptionsDone"] > 1) ~>
          (tpc["onListSubscriptionsDone"] = 1 /\ tpc["Start"] = 5)
    /\ (tpc["onUpsertSubscriptions"] = 2) ~> (tpc["onUpsertSubscriptions"] = 3)

\* the records of an event on the queue of a subscription id
RecordsOf(s, eventID) == {k \in 1..Len(subQueue[s]) : subQueue[s][k].event_id = eventID}

\* the record a handler is to write for an event inst and a subscription id
FanRecord(event, s, dstbID) ==
    MarshalDistInst([getDistInst(event).dists[1] EXCEPT !.DstbID = dstbID,
                                                        !.SubscriptionID = s])

\* the events the handlers took from the main queue
Taken == {UnmarshalEventInst(dupQueue[k]) : k \in 1..Len(dupQueue)}

=============================================================================
